---- MODULE Spec2Model ----
(***************************************************************************)
(* Model of the voice command segmentation engine                          *)
(* (src/voice_cli_control/voice_controller.py, class VoiceController) and  *)
(* of the terminal session controller                                      *)
(* (src/voice_cli_control/terminal_controller.py, class TerminalController)*)
(*                                                                         *)
(* Text is modelled by TLA+ strings; TLC evaluates Len, SubSeq, Head, Tail *)
(* and \o on strings, so the string algorithms of the source are computed  *)
(* character by character as the Python code computes them.                *)
(***************************************************************************)
EXTENDS Integers, Sequences, FiniteSets, TLC

(***************************************************************************)
(* Python str primitives                                                   *)
(***************************************************************************)
UpperLetters == "ABCDEFGHIJKLMNOPQRSTUVWXYZ"

LowerLetters == "abcdefghijklmnopqrstuvwxyz"

Digits == "0123456789"

\* the character at position i (1-based) of s, as a one-character string
CharAt(s, i) == SubSeq(s, i, i)

\* c occurs in the string set
CharIn(c, set) == \E i \in 1..Len(set) : CharAt(set, i) = c

\* the lower-case letter of each upper-case letter
LowerOf ==
  [c \in {CharAt(UpperLetters, i) : i \in 1..Len(UpperLetters)} |->
     CharAt(LowerLetters, CHOOSE i \in 1..Len(UpperLetters) : CharAt(UpperLetters, i) = c)]

\* str.lower() on one character
LowerChar(c) == IF c \in DOMAIN LowerOf THEN LowerOf[c] ELSE c

\* str.lower()
RECURSIVE Lower(_)
Lower(s) == IF s = "" THEN "" ELSE LowerChar(Head(s)) \o Lower(Tail(s))

\* the characters str.strip() removes
IsSpace(c) == c = " " \/ c = "\t" \/ c = "\n"

RECURSIVE LStrip(_)
LStrip(s) == IF s # "" /\ IsSpace(Head(s)) THEN LStrip(Tail(s)) ELSE s

RECURSIVE RStrip(_)
RStrip(s) ==
  IF s # "" /\ IsSpace(CharAt(s, Len(s))) THEN RStrip(SubSeq(s, 1, Len(s) - 1)) ELSE s

\* str.strip()
Strip(s) == RStrip(LStrip(s))

\* str.startswith
StartsWith(s, p) == Len(p) <= Len(s) /\ SubSeq(s, 1, Len(p)) = p

\* str.endswith
EndsWith(s, p) == Len(p) <= Len(s) /\ SubSeq(s, Len(s) - Len(p) + 1, Len(s)) = p

\* the least element of a non-empty set of integers
Min(S) == CHOOSE i \in S : \A j \in S : i <= j

\* str.find: the 0-based start of the leftmost occurrence of p in s, or -1
Find(s, p) ==
  LET hits == {i \in 1..(Len(s) - Len(p) + 1) : SubSeq(s, i, i + Len(p) - 1) = p}
  IN IF hits = {} THEN -1 ELSE Min(hits) - 1

\* re.compile(re.escape(pat), re.IGNORECASE).search(s): the 0-based start of the
\* leftmost match, or -1 when there is none; the comparison ignores letter case
Search(s, pat) == Find(Lower(s), Lower(pat))

\* \w of the re module
IsWordChar(c) ==
  CharIn(c, LowerLetters) \/ CharIn(c, UpperLetters) \/ CharIn(c, Digits) \/ c = "_"

\* \b holds between positions i-1 and i (1-based position i of s, i in 1..Len(s)+1)
WordBoundary(s, i) ==
  LET before == i > 1 /\ IsWordChar(CharAt(s, i - 1))
      after  == i <= Len(s) /\ IsWordChar(CharAt(s, i))
  IN before # after

\* \b pat \b matches s at position i (1-based), case-insensitively
WordMatchAt(s, pat, i) ==
  /\ i + Len(pat) - 1 <= Len(s)
  /\ Lower(SubSeq(s, i, i + Len(pat) - 1)) = Lower(pat)
  /\ WordBoundary(s, i)
  /\ WordBoundary(s, i + Len(pat))

\* pattern.sub(symbol, s) for the pattern \b pat \b: replaces the
\* non-overlapping matches from left to right
RECURSIVE SubWord(_, _, _)
SubWord(s, pat, symbol) ==
  LET hits == {i \in 1..Len(s) : WordMatchAt(s, pat, i)} IN
  IF hits # {}
  THEN LET i == Min(hits)
       IN SubSeq(s, 1, i - 1) \o symbol
            \o SubWord(SubSeq(s, i + Len(pat), Len(s)), pat, symbol)
  ELSE s

(***************************************************************************)
(* Bounds of the model                                                     *)
(***************************************************************************)
\* the clock takes the values 0..MaxTime
MaxTime == 4

\* longest transcript buffer (in characters) a fragment may be appended to
MaxBuf == 17

\* commands handed to on_command in one behaviour of Spec
MaxEmitted == 1

\* commands handed to on_command in one behaviour of CapSpec
CapEmitted == 150

\* the leading fragments of a behaviour of CapSpec that may be "tab" instead of "enter"
CapTabs == 2

\* child processes spawned in one behaviour of TermSpec
MaxChildren == 2

\* pseudo-terminal descriptors open at a time in one behaviour of TermSpec
MaxFds == 4

\* commands emitted before the last fragment of a behaviour of ControlSpec
ControlEmitted == 2

\* longest transcript buffer (in characters) a fragment of ControlSpec may be
\* appended to
ControlBuf == 22

\* commands emitted before the last fragment of a behaviour of OrderSpec
OrderEmitted == 4

\* longest transcript buffer (in characters) a fragment of OrderSpec may be
\* appended to
OrderBuf == 30

\* byte sequences written to the terminal in one behaviour of TermSpec
MaxWritten == 1

\* sessions started in one behaviour of ThreadSpec
MaxSessions == 1

\* chunks of output read from the terminal in one behaviour of ThreadSpec
MaxChunks == 1

\* chunks of output read from the terminal in one behaviour of OutputSpec
OutputChunks == 2

\* calls of on_error in one behaviour
MaxErrors == 1

\* calls of check_rate_limit by one client in one behaviour
MaxRequests == 5

\* the max_requests and the window (in clock ticks) check_rate_limit is called with
RateMax == 2
RateWindow == 2

\* sessions created in one behaviour
MaxIssued == 2

\* calls of record_transcription in one behaviour
MaxCalls == 6

\* websockets that connect in one behaviour
MaxSockets == 2

\* the MAX_CLIENTS setting the server runs with
MAX_CLIENTS == 1

\* the max_requests of the rate limit on connections (the default of
\* check_rate_limit is 100 requests in 60 seconds)
ConnectionRateMax == 1

(***************************************************************************)
(* VoiceController: class-level tables and constants                       *)
(***************************************************************************)
\* VoiceCommandType
TEXT == "text"

KEY == "key"

CONTROL == "control"

\* VoiceCommand(type, content); confidence is always the default 1.0 and the
\* timestamp is not compared by any caller, so neither field is kept
VoiceCommand(type, content) == [type |-> type, content |-> content]

\* one entry of an insertion-ordered dict
Item(k, v) == [k |-> k, v |-> v]

\* VoiceController.VOICE_TRIGGERS as written in the class body, in insertion order
BUILTIN_TRIGGERS ==
  << Item("enter", "Enter"), Item("press enter", "Enter"), Item("hit enter", "Enter"),
     Item("return", "Enter"), Item("new line", "Enter"), Item("tab", "Tab"),
     Item("press tab", "Tab"), Item("backspace", "Backspace"), Item("delete", "Delete"),
     Item("escape", "Escape"), Item("press escape", "Escape"),
     Item("up arrow", "Up"), Item("down arrow", "Down"), Item("left arrow", "Left"),
     Item("right arrow", "Right"), Item("page up", "PageUp"), Item("page down", "PageDown"),
     Item("home", "Home"), Item("end", "End"),
     Item("control c", "Ctrl+C"), Item("control d", "Ctrl+D"), Item("control z", "Ctrl+Z"),
     Item("break", "Ctrl+C"), Item("exit", "Ctrl+D"), Item("stop", "Ctrl+C"),
     Item("start recording", "START_RECORDING"), Item("stop recording", "STOP_RECORDING"),
     Item("pause recording", "PAUSE_RECORDING"), Item("resume recording", "RESUME_RECORDING"),
     Item("clear terminal", "CLEAR"), Item("clear screen", "CLEAR") >>

\* VoiceController.PUNCTUATION_MAP, in insertion order (the grave accent of the
\* "backtick" entry cannot be written in a TLA+ string; "\f" stands for it)
PUNCTUATION_MAP ==
  << Item("period", "."), Item("dot", "."), Item("comma", ","), Item("question mark", "?"),
     Item("exclamation mark", "!"), Item("exclamation point", "!"), Item("colon", ":"),
     Item("semicolon", ";"), Item("quote", "\""), Item("single quote", "'"),
     Item("apostrophe", "'"), Item("open parenthesis", "("), Item("close parenthesis", ")"),
     Item("open bracket", "["), Item("close bracket", "]"), Item("open brace", "{"),
     Item("close brace", "}"), Item("slash", "/"), Item("backslash", "\\"),
     Item("pipe", "|"), Item("ampersand", "&"), Item("at sign", "@"), Item("hashtag", "#"),
     Item("dollar sign", "$"), Item("percent", "%"), Item("caret", "^"),
     Item("asterisk", "*"), Item("plus", "+"), Item("minus", "-"), Item("equals", "="),
     Item("underscore", "_"), Item("tilde", "~"), Item("backtick", "\f"),
     Item("less than", "<"), Item("greater than", ">"), Item("space", " ") >>

\* self.silence_threshold
silence_threshold == 2

\* self.max_history
max_history == 100

\* the control tokens _handle_control_command knows
CONTROL_TOKENS ==
  {"START_RECORDING", "STOP_RECORDING", "PAUSE_RECORDING", "RESUME_RECORDING", "CLEAR"}

(***************************************************************************)
(* dict operations on an insertion-ordered table                           *)
(***************************************************************************)
\* key in d
HasKey(d, key) == \E i \in 1..Len(d) : d[i].k = key

\* d[key]
Lookup(d, key) == d[CHOOSE i \in 1..Len(d) : d[i].k = key].v

\* d[key] = value: an existing key keeps its position, a new key goes last
DictSet(d, key, value) ==
  IF HasKey(d, key)
  THEN [i \in 1..Len(d) |-> IF d[i].k = key THEN Item(key, value) ELSE d[i]]
  ELSE Append(d, Item(key, value))

\* del d[key]
DictDel(d, key) == SelectSeq(d, LAMBDA e : e.k # key)

\* the keys of d
Keys(d) == {d[i].k : i \in 1..Len(d)}

(***************************************************************************)
(* State                                                                   *)
(***************************************************************************)
VARIABLES
  VOICE_TRIGGERS,           \* the class attribute VoiceController.VOICE_TRIGGERS
  is_paused,                \* self.is_paused
  transcription_buffer,     \* self.transcription_buffer
  last_transcription_time,  \* self.last_transcription_time
  command_history,          \* self.command_history
  now,                      \* the value time.time() returns
  emitted,                  \* the commands handed to self.on_command, in order
  outcome,                  \* the branch the last _handle_transcription call took
  segmented,                \* the last direct _parse_transcription call: text and result
  system,                   \* TerminalController.system
  running,                  \* TerminalController.running
  process,                  \* TerminalController.process: None or the child's pid
  master_fd,                \* TerminalController.master_fd
  slave_fd,                 \* TerminalController.slave_fd
  pipes,                    \* TerminalController.stdin/stdout/stderr: None or the pid they belong to
  children,                 \* the children spawned so far: pid -> "alive", "exited" or "orphaned"
  open_fds,                 \* the pseudo-terminal descriptors this process holds open
  tc_call,                  \* the last TerminalController call, its result and the call before it
  readers,                  \* the _output_reader threads started so far: position and chunk in hand
  writers,                  \* the _input_writer threads started so far: position
  caller,                   \* the position of the thread that is inside stop_terminal
  output_queue,             \* TerminalController.output_queue
  delivered,                \* the chunks handed to self.on_output, in order
  polled,                   \* the chunks get_output returned, in order
  errors,                   \* the calls of self.on_error, in order: the method that made each
  written,                  \* the byte sequences written to the terminal, in order
  reads,                    \* the number of chunks read from the terminal so far
  redis_client,             \* whether auth.redis_client is a connection (TRUE) or None (FALSE)
  redis_counters,           \* the Redis keys rate_limit:<client>: value and expiry
  redis_hashes,             \* the Redis keys session:<id>: fields and expiry
  rate_limits,              \* AuthManager.rate_limits
  sessions,                 \* AuthManager.sessions
  decisions,                \* what check_rate_limit returned to each client so far, and when
  issued,                   \* the sessions create_session returned so far: the i-th has id i
  revoked,                  \* the ids revoke_session was called with
  ENABLE_METRICS,           \* monitoring.ENABLE_METRICS
  request_count,            \* MetricsCollector.request_count
  success_count,            \* MetricsCollector.success_count
  error_count,              \* MetricsCollector.error_count
  prometheus,               \* the Prometheus counters and gauges of monitoring.py
  recorded,                 \* the success argument of each record_transcription call so far
  clients,                  \* client_manager.clients: the websockets registered
  handlers                  \* the websocket_transcribe coroutines: position and locals

\* the fields of the VoiceController and what its callers observe
voice_vars ==
  << VOICE_TRIGGERS, is_paused, transcription_buffer, last_transcription_time,
     command_history, now, emitted, outcome, segmented >>

\* the fields of the TerminalController, the operating system's side and what
\* its callers observe
term_vars ==
  << system, running, process, master_fd, slave_fd, pipes, children, open_fds, tc_call >>

\* the worker threads, the stopping thread, the queues and what the callbacks
\* and the terminal received
io_vars ==
  << readers, writers, caller, output_queue, delivered, polled, errors, written, reads >>

controller_vars == << term_vars, io_vars >>

\* the AuthManager, the Redis server it may use and what its callers observe
auth_vars ==
  << redis_client, redis_counters, redis_hashes, rate_limits, sessions,
     decisions, issued, revoked >>

\* the MetricsCollector and the Prometheus registry
metrics_vars ==
  << ENABLE_METRICS, request_count, success_count, error_count, prometheus, recorded >>

\* the client manager and the connection handlers of server_enhanced.py
server_vars == << clients, handlers >>

service_vars == << auth_vars, metrics_vars, server_vars >>

vars == << voice_vars, term_vars, io_vars, service_vars >>

\* the value None of a TerminalController field that otherwise holds a pid or a
\* descriptor number
Nil == -1

(***************************************************************************)
(* VoiceController: segmentation                                           *)
(***************************************************************************)
\* the value None
None == [type |-> "None", content |-> ""]

\* a str element of the list _split_by_triggers returns
StrPart(s) == [type |-> "str", content |-> s]

\* re's template parser rejects a replacement string that ends in a lone
\* backslash ("bad escape (end of pattern)"); pattern.sub parses the template
\* before it searches, so the error is raised whether or not the pattern matches
BadTemplate(repl) ==
  /\ Len(repl) >= 1
  /\ CharAt(repl, Len(repl)) = "\\"
  /\ (Len(repl) = 1 \/ CharAt(repl, Len(repl) - 1) # "\\")

\* the loop of _process_text from entry i of PUNCTUATION_MAP on
RECURSIVE SubstituteFrom(_, _)
SubstituteFrom(text, i) ==
  IF i > Len(PUNCTUATION_MAP)
  THEN [raised |-> FALSE, text |-> Strip(text)]
  ELSE IF BadTemplate(PUNCTUATION_MAP[i].v)
       THEN [raised |-> TRUE, text |-> ""]
       ELSE SubstituteFrom(SubWord(text, PUNCTUATION_MAP[i].k, PUNCTUATION_MAP[i].v), i + 1)

\* VoiceController._process_text: the processed text, or raised when re.error escapes
_process_text(text) == SubstituteFrom(text, 1)

\* the trigger the for loop of _split_by_triggers settles on: the index in
\* the table of the leftmost match, the first registered among equally
\* early ones (match.start() < earliest_pos is strict); 0 when nothing matches
EarliestTrigger(triggers, remaining) ==
  LET lowered == Lower(remaining)
      start == [i \in 1..Len(triggers) |-> Find(lowered, Lower(triggers[i].k))]
      cands == {i \in 1..Len(triggers) : start[i] >= 0 /\ start[i] < Len(remaining)}
  IN IF cands = {} THEN 0
     ELSE CHOOSE i \in cands : \A j \in cands :
            start[i] < start[j] \/ (start[i] = start[j] /\ i <= j)

\* VoiceController._split_by_triggers, with the table self.VOICE_TRIGGERS names
RECURSIVE _split_by_triggers(_, _)
_split_by_triggers(triggers, remaining) ==
  IF remaining = "" THEN <<>>
  ELSE
    LET i == EarliestTrigger(triggers, remaining) IN
    IF i # 0 /\ triggers[i].k # ""
    THEN LET earliest_trigger == triggers[i].k
             earliest_key == triggers[i].v
             earliest_pos == Search(remaining, earliest_trigger)
             before == IF earliest_pos > 0
                       THEN << StrPart(Strip(SubSeq(remaining, 1, earliest_pos))) >>
                       ELSE <<>>
             command == IF StartsWith(earliest_key, "START_") \/ StartsWith(earliest_key, "STOP_")
                        THEN VoiceCommand(CONTROL, earliest_key)
                        ELSE VoiceCommand(KEY, earliest_key)
             trigger_end == earliest_pos + Len(earliest_trigger)
         IN before \o << command >>
              \o _split_by_triggers(triggers,
                                    Strip(SubSeq(remaining, trigger_end + 1, Len(remaining))))
    ELSE << StrPart(remaining) >>

\* the for loop of _parse_transcription over the parts
RECURSIVE PartsToCommands(_)
PartsToCommands(parts) ==
  IF parts = <<>> THEN [raised |-> FALSE, commands |-> <<>>]
  ELSE
    LET part == Head(parts) IN
    IF part.type # "str"
    THEN LET rest == PartsToCommands(Tail(parts))
         IN [raised |-> rest.raised, commands |-> << part >> \o rest.commands]
    ELSE LET processed_text == _process_text(part.content) IN
         IF processed_text.raised
         THEN [raised |-> TRUE, commands |-> <<>>]
         ELSE LET rest == PartsToCommands(Tail(parts))
              IN [raised |-> rest.raised,
                  commands |-> (IF processed_text.text # ""
                                THEN << VoiceCommand(TEXT, processed_text.text) >>
                                ELSE <<>>) \o rest.commands]

\* _parse_transcription that returns the commands of the parts last to first
_parse_transcription_backwards(triggers, text) ==
  LET text_lower == Lower(text) IN
  IF HasKey(triggers, text_lower)
  THEN LET key == Lookup(triggers, text_lower)
       IN [raised |-> FALSE,
           commands |-> << IF \/ StartsWith(key, "START_")
                              \/ StartsWith(key, "STOP_")
                              \/ StartsWith(key, "PAUSE_")
                           THEN VoiceCommand(CONTROL, key)
                           ELSE VoiceCommand(KEY, key) >>]
  ELSE LET parsed == PartsToCommands(_split_by_triggers(triggers, text))
           n == Len(parsed.commands)
       IN [raised |-> parsed.raised,
           commands |-> [i \in 1..n |-> parsed.commands[n + 1 - i]]]

\* VoiceController._parse_transcription: the list of commands, or raised
_parse_transcription(triggers, text) ==
  LET text_lower == Lower(text) IN
  IF HasKey(triggers, text_lower)
  THEN LET key == Lookup(triggers, text_lower)
       IN [raised |-> FALSE,
           commands |-> << IF \/ StartsWith(key, "START_")
                              \/ StartsWith(key, "STOP_")
                              \/ StartsWith(key, "PAUSE_")
                           THEN VoiceCommand(CONTROL, key)
                           ELSE VoiceCommand(KEY, key) >>]
  ELSE PartsToCommands(_split_by_triggers(triggers, text))

\* _check_for_triggers without the exact-match test: only a phrase at the end
\* of the text is looked for
_check_for_triggers_ending_only(triggers, text) ==
  LET text_lower == Strip(Lower(text))
      ending == {i \in 1..Len(triggers) : EndsWith(text_lower, " " \o triggers[i].k)}
      TypeOf(key) == IF StartsWith(key, "START_") \/ StartsWith(key, "STOP_")
                     THEN CONTROL ELSE KEY
  IN IF ending = {} THEN None
     ELSE LET i == Min(ending)
              trigger == triggers[i].k
              text_before == Strip(SubSeq(text, 1, Len(text) - (Len(trigger) + 1)))
          IN IF text_before # "" THEN None
             ELSE VoiceCommand(TypeOf(triggers[i].v), triggers[i].v)

\* VoiceController._check_for_triggers
_check_for_triggers(triggers, text) ==
  LET text_lower == Strip(Lower(text))
      ending == {i \in 1..Len(triggers) : EndsWith(text_lower, " " \o triggers[i].k)}
      TypeOf(key) == IF StartsWith(key, "START_") \/ StartsWith(key, "STOP_")
                     THEN CONTROL ELSE KEY
  IN IF HasKey(triggers, text_lower)
     THEN VoiceCommand(TypeOf(Lookup(triggers, text_lower)), Lookup(triggers, text_lower))
     ELSE IF ending = {} THEN None
     ELSE LET i == Min(ending)
              trigger == triggers[i].k
              text_before == Strip(SubSeq(text, 1, Len(text) - (Len(trigger) + 1)))
          IN IF text_before # "" THEN None
             ELSE VoiceCommand(TypeOf(triggers[i].v), triggers[i].v)

\* _should_process_buffer that asks for a flush after every fragment
_should_process_buffer_always(triggers, buffer, last) == TRUE

\* VoiceController._should_process_buffer, reading the buffer and the
\* timestamp the caller has just assigned
_should_process_buffer(triggers, buffer, last) ==
  LET buffer_lower == Strip(Lower(buffer)) IN
  \/ now - last > silence_threshold
  \/ \E i \in 1..Len(triggers) : EndsWith(buffer_lower, triggers[i].k)

(***************************************************************************)
(* VoiceController: command dispatch                                       *)
(***************************************************************************)
\* VoiceController._handle_control_command: the value of is_paused afterwards
_handle_control_command(command, paused) ==
  CASE command = "START_RECORDING"  -> FALSE
    [] command = "STOP_RECORDING"   -> TRUE
    [] command = "PAUSE_RECORDING"  -> TRUE
    [] command = "RESUME_RECORDING" -> FALSE
    [] OTHER -> paused

\* AppendHistory with pop() in place of pop(0): the newest command is dropped
AppendHistoryDropNewest(history, command) ==
  LET h == Append(history, command)
  IN IF Len(h) > max_history THEN SubSeq(h, 1, Len(h) - 1) ELSE h

\* the list after command_history.append(command) and the pop(0) that follows
AppendHistory(history, command) ==
  LET h == Append(history, command)
  IN IF Len(h) > max_history THEN Tail(h) ELSE h

\* VoiceController._execute_command on the engine fields st
_execute_command(st, command) ==
  [history |-> AppendHistory(st.history, command),
   emitted |-> Append(st.emitted, command),
   paused  |-> IF command.type = CONTROL
               THEN _handle_control_command(command.content, st.paused)
               ELSE st.paused]

\* for command in commands: self._execute_command(command)
RECURSIVE ExecuteAll(_, _)
ExecuteAll(st, commands) ==
  IF commands = <<>> THEN st
  ELSE ExecuteAll(_execute_command(st, Head(commands)), Tail(commands))

\* the engine fields _execute_command reads and writes
EngineFields == [history |-> command_history, emitted |-> emitted, paused |-> is_paused]

\* the assignment of the fields st back to the variables
SetEngineFields(st) ==
  /\ command_history' = st.history
  /\ emitted' = st.emitted
  /\ is_paused' = st.paused

\* VoiceController._process_transcription_buffer on the buffer just assigned;
\* re.error raised by _parse_transcription escapes after the buffer is cleared
_process_transcription_buffer(buffer) ==
  IF buffer = ""
  THEN /\ transcription_buffer' = buffer
       /\ outcome' = "flushed"
       /\ UNCHANGED << command_history, emitted, is_paused >>
  ELSE LET parsed == _parse_transcription(VOICE_TRIGGERS, Strip(buffer)) IN
       /\ transcription_buffer' = ""
       /\ IF parsed.raised
          THEN /\ outcome' = "raised"
               /\ UNCHANGED << command_history, emitted, is_paused >>
          ELSE /\ outcome' = "flushed"
               /\ SetEngineFields(ExecuteAll(EngineFields, parsed.commands))

\* CleanedText without the strip
CleanedTextUnstripped(text) == text

\* "Clean up the text": text = text.strip()
CleanedText(text) == Strip(text)

\* VoiceController._handle_transcription
_handle_transcription(text, is_final) ==
  /\ UNCHANGED << VOICE_TRIGGERS, now, segmented >>
  /\ IF is_paused
     THEN /\ outcome' = "paused"
          /\ UNCHANGED << is_paused, transcription_buffer, last_transcription_time,
                          command_history, emitted >>
     ELSE IF CleanedText(text) = ""
     THEN /\ outcome' = "empty"
          /\ UNCHANGED << is_paused, transcription_buffer, last_transcription_time,
                          command_history, emitted >>
     ELSE LET t == CleanedText(text)
              buffer == IF transcription_buffer # ""
                        THEN transcription_buffer \o " " \o t
                        ELSE t
              command == _check_for_triggers(VOICE_TRIGGERS, t)
          IN /\ last_transcription_time' = now
             /\ IF command # None
                THEN /\ SetEngineFields(_execute_command(EngineFields, command))
                     /\ transcription_buffer' = ""
                     /\ outcome' = "trigger"
                ELSE IF is_final \/ _should_process_buffer(VOICE_TRIGGERS, buffer, now)
                     THEN _process_transcription_buffer(buffer)
                     ELSE /\ transcription_buffer' = buffer
                          /\ outcome' = "buffered"
                          /\ UNCHANGED << command_history, emitted, is_paused >>

\* pause that also drops what was buffered
pause_clearing_buffer ==
  /\ is_paused' = TRUE
  /\ transcription_buffer' = ""
  /\ UNCHANGED << VOICE_TRIGGERS, last_transcription_time,
                  command_history, now, emitted, outcome, segmented >>

\* VoiceController.pause
pause ==
  /\ is_paused' = TRUE
  /\ UNCHANGED << VOICE_TRIGGERS, transcription_buffer, last_transcription_time,
                  command_history, now, emitted, outcome, segmented >>

\* VoiceController.resume
resume ==
  /\ is_paused' = FALSE
  /\ UNCHANGED << VOICE_TRIGGERS, transcription_buffer, last_transcription_time,
                  command_history, now, emitted, outcome, segmented >>

\* the table after add_custom_trigger(phrase, action)
TriggersAfterAdd(triggers, phrase, action) == DictSet(triggers, Lower(phrase), action)

\* the table after remove_custom_trigger(phrase)
TriggersAfterRemove(triggers, phrase) ==
  IF HasKey(triggers, Lower(phrase)) THEN DictDel(triggers, Lower(phrase)) ELSE triggers

\* VoiceController.add_custom_trigger: self.VOICE_TRIGGERS[...] = action stores
\* into the class attribute, the instance has no table of its own
add_custom_trigger(phrase, action) ==
  /\ VOICE_TRIGGERS' = TriggersAfterAdd(VOICE_TRIGGERS, phrase, action)
  /\ UNCHANGED << is_paused, transcription_buffer, last_transcription_time,
                  command_history, now, emitted, outcome, segmented >>

\* VoiceController.remove_custom_trigger
remove_custom_trigger(phrase) ==
  /\ VOICE_TRIGGERS' = TriggersAfterRemove(VOICE_TRIGGERS, phrase)
  /\ UNCHANGED << is_paused, transcription_buffer, last_transcription_time,
                  command_history, now, emitted, outcome, segmented >>

(***************************************************************************)
(* Initial state                                                           *)
(***************************************************************************)
\* VoiceController.__init__ ; the class body has just built VOICE_TRIGGERS
VoiceInit ==
  /\ VOICE_TRIGGERS = BUILTIN_TRIGGERS
  /\ is_paused = FALSE
  /\ transcription_buffer = ""
  /\ last_transcription_time = 0
  /\ command_history = <<>>
  /\ now = 1
  /\ emitted = <<>>
  /\ outcome = "init"
  /\ segmented = [text |-> "", raised |-> FALSE, commands |-> <<>>]

\* the platforms of the model: one with pseudo-terminals, one with pipes
Systems == {"Linux", "Windows"}

\* TerminalController.__init__ where platform.system() returns platform
TermInit(platform) ==
  /\ system = platform
  /\ running = FALSE
  /\ process = Nil
  /\ master_fd = Nil
  /\ slave_fd = Nil
  /\ pipes = Nil
  /\ children = <<>>
  /\ open_fds = {}
  /\ tc_call = [op |-> "init", result |-> "ok", prior |-> "none"]
  /\ readers = <<>>
  /\ writers = <<>>
  /\ caller = "idle"
  /\ output_queue = <<>>
  /\ delivered = <<>>
  /\ polled = <<>>
  /\ errors = <<>>
  /\ written = <<>>
  /\ reads = 0

\* the client ids check_rate_limit is called with and the users of sessions
ClientIds == {"alice", "bob"}

\* the websockets that connect to /ws/transcribe
Sockets == 1..MaxSockets

\* the session ids: create_session returns 1, 2, ... (secrets.token_urlsafe(32)
\* gives every session a fresh id), at most one for each websocket; 0 is an id
\* that was never issued
SessionIds == 0..MaxSockets

\* the keys of the session_data dict of create_session
SessionFields == {"user_id", "websocket_id", "created_at", "last_activity"}

\* no session data: the None that dict.get returns, the empty mapping hgetall
\* returns for a missing key
NoSession ==
  [fields |-> {}, user_id |-> "", websocket_id |-> Nil, created_at |-> Nil,
   last_activity |-> Nil]

\* a Redis key that does not exist
NoCounter == [value |-> 0, expires_at |-> Nil]
NoHash == [data |-> NoSession, expires_at |-> Nil]

\* a websocket_transcribe coroutine that has not been started, or has returned:
\* its position, its local session_id, the messages it sent and how the
\* connection was closed (client_id is only logged after the rate limit)
NoHandler == [pc |-> "idle", session_id |-> Nil, sent |-> <<>>, closed |-> ""]

\* the values of the audio_length_bucket label
AudioBuckets == {"0-5s", "5-30s", "30-60s", "1-5m", "5m+"}

\* the module level of auth.py and monitoring.py has run, AuthManager(),
\* MetricsCollector() and ClientManager(...) are constructed; cache tells whether
\* the Redis server answered the ping, metrics_on is the ENABLE_METRICS setting
ServiceInit(cache, metrics_on) ==
  /\ redis_client = cache
  /\ redis_counters = [client_id \in ClientIds |-> NoCounter]
  /\ redis_hashes = [session_id \in SessionIds |-> NoHash]
  /\ rate_limits = [client_id \in ClientIds |-> <<>>]
  /\ sessions = [session_id \in SessionIds |-> NoSession]
  /\ decisions = [client_id \in ClientIds |-> <<>>]
  /\ issued = <<>>
  /\ revoked = {}
  /\ ENABLE_METRICS = metrics_on
  /\ request_count = 0
  /\ success_count = 0
  /\ error_count = 0
  /\ prometheus = [transcription_requests |-> [success |-> 0, error |-> 0],
                   websocket_connections |-> [connect |-> 0, disconnect |-> 0],
                   errors_total |-> 0,
                   transcription_duration |-> [bucket \in AudioBuckets |-> 0],
                   active_connections |-> 0]
  /\ recorded = <<>>
  /\ clients = {}
  /\ handlers = [websocket \in Sockets |-> NoHandler]

\* both components constructed, on a Linux host; the service without Redis and
\* with metrics
Init == VoiceInit /\ TermInit("Linux") /\ ServiceInit(FALSE, TRUE)

\* both components constructed, on any host
AnyHostInit ==
  VoiceInit /\ (\E platform \in Systems : TermInit(platform)) /\ ServiceInit(FALSE, TRUE)

\* the service under any setting of ENABLE_CACHE and ENABLE_METRICS, with or
\* without a Redis server
AnyDeploymentInit ==
  /\ VoiceInit
  /\ TermInit("Linux")
  /\ \E cache \in BOOLEAN, metrics_on \in BOOLEAN : ServiceInit(cache, metrics_on)

(***************************************************************************)
(* The engine under a stream of fragments                                  *)
(***************************************************************************)
\* the fragments the transcription client delivers
Fragments ==
  {"", " ", "open", "file", "dot", "txt", "enter", "hello",
   "stop recording", "start recording"}

\* time passes
Tick ==
  /\ now < MaxTime
  /\ now' = now + 1
  /\ UNCHANGED << VOICE_TRIGGERS, is_paused, transcription_buffer,
                  last_transcription_time, command_history, emitted, outcome, segmented >>
  /\ UNCHANGED << controller_vars, service_vars >>

\* the client delivers one fragment
Fragment ==
  \E text \in Fragments, is_final \in BOOLEAN :
    /\ Len(emitted) < MaxEmitted
    /\ Len(transcription_buffer) + 1 + Len(text) <= MaxBuf
    /\ _handle_transcription(text, is_final)
    /\ UNCHANGED << controller_vars, service_vars >>

\* the caller pauses the engine
Pause == pause /\ UNCHANGED << controller_vars, service_vars >>

\* the caller resumes the engine
Resume == resume /\ UNCHANGED << controller_vars, service_vars >>

Next == Fragment \/ Tick \/ Pause \/ Resume

Spec == Init /\ [][Next]_vars

\* the engine with time that keeps passing
FairSpec == Spec /\ WF_vars(Tick)

(***************************************************************************)
(* Segmentation under a changing trigger table                             *)
(***************************************************************************)
\* the texts handed to _parse_transcription
Texts ==
  {"foo", "Foo", "hello", "space", "hello world", "enter", "resume recording",
   "clear screen", "foo enter", "tab stop recording", "single quote"}

\* the phrases of add_custom_trigger and remove_custom_trigger
Phrases == {"foo", "Foo", " foo", "enter"}

\* the actions of add_custom_trigger
TriggerActions == {"Tab", "CLEAR"}

\* a caller segments a text
Segment(text) ==
  /\ segmented' = [text |-> text,
                   raised |-> _parse_transcription(VOICE_TRIGGERS, text).raised,
                   commands |-> _parse_transcription(VOICE_TRIGGERS, text).commands]
  /\ UNCHANGED << VOICE_TRIGGERS, is_paused, transcription_buffer, last_transcription_time,
                  command_history, now, emitted, outcome >>
  /\ UNCHANGED << controller_vars, service_vars >>

SegmentText == \E text \in Texts : Segment(text)

\* a caller adds a trigger
AddTrigger ==
  \E phrase \in Phrases, action \in TriggerActions :
    add_custom_trigger(phrase, action) /\ UNCHANGED << controller_vars, service_vars >>

\* a caller removes a trigger
RemoveTrigger ==
  \E phrase \in Phrases : remove_custom_trigger(phrase) /\ UNCHANGED << controller_vars, service_vars >>

ParseNext == SegmentText \/ AddTrigger \/ RemoveTrigger

ParseSpec == Init /\ [][ParseNext]_vars

(***************************************************************************)
(* The engine emitting more commands than the history holds                *)
(***************************************************************************)
\* the fragments of CapSpec: each is a trigger and emits one Key command
CapFragments == {"enter", "tab"}

\* the client delivers a trigger fragment: "enter", or among the first
\* fragments "tab"
CapFragment ==
  \E text \in CapFragments :
    /\ Len(emitted) < CapEmitted
    /\ text = "tab" => Len(emitted) < CapTabs
    /\ _handle_transcription(text, FALSE)
    /\ UNCHANGED << controller_vars, service_vars >>

CapNext == CapFragment

CapSpec == Init /\ [][CapNext]_vars

(***************************************************************************)
(* The engine under fragments that hold several triggers                   *)
(***************************************************************************)
\* the fragments of OrderSpec: triggers alone, several triggers in a row, and
\* text before a trigger
OrderFragments ==
  {"enter", "tab", "tab enter", "escape tab", "up arrow tab enter", "Page Up end",
   "hello", "hello enter"}

\* the client delivers one of these fragments
OrderFragment ==
  \E text \in OrderFragments, is_final \in BOOLEAN :
    /\ Len(emitted) < OrderEmitted
    /\ Len(transcription_buffer) + 1 + Len(text) <= OrderBuf
    /\ _handle_transcription(text, is_final)
    /\ UNCHANGED << controller_vars, service_vars >>

OrderNext == OrderFragment

OrderSpec == Init /\ [][OrderNext]_vars

(***************************************************************************)
(* TerminalController: session lifecycle                                   *)
(***************************************************************************)
\* the record of a TerminalController call that follows the call tc_call records
Called(op, result) ==
  [op |-> op, result |-> result, prior |-> tc_call.op \o ":" \o tc_call.result]

\* pty.openpty() hands out the lowest descriptors that are not open (0, 1 and 2
\* are the standard streams)
LowestFree(used) == Min({n \in 3..(3 + Cardinality(used)) : n \notin used})

\* the systems with pseudo-terminals: self.system in ["Linux", "Darwin"]
IsUnix == system \in {"Linux", "Darwin"}

\* what the platform does with a start: no terminal resolves, pty.openpty()
\* raises, subprocess.Popen raises, or the child is spawned
StartEnvs == {"no_terminal", "openpty_fails", "spawn_fails", "ok"}

\* TerminalController._start_io_threads: one more reader and one more writer
\* thread, each at the head of its loop
_start_io_threads ==
  /\ readers' = Append(readers, [pc |-> "loop", chunk |-> 0])
  /\ writers' = Append(writers, "loop")

\* start_terminal that does not look at self.running
ReturnsFalseAtOnceIgnoringFlag(env) == env = "no_terminal"

\* start_terminal returns False before it tries anything: a session is
\* running, or no terminal is named or available
ReturnsFalseAtOnce(env) == running \/ env = "no_terminal"

\* TerminalController.start_terminal (with _start_unix_terminal and
\* _start_windows_terminal); the except clause prints the failure and turns it
\* into False
start_terminal(env) ==
  /\ UNCHANGED << caller, output_queue, delivered, polled, errors, written, reads >>
  /\ IF ReturnsFalseAtOnce(env) \/ (~IsUnix /\ env = "spawn_fails")
        \/ (IsUnix /\ env = "openpty_fails")
     THEN /\ tc_call' = Called("start", "False")
          /\ UNCHANGED << system, running, process, master_fd, slave_fd, pipes, children,
                          open_fds, readers, writers >>
     ELSE IF IsUnix
     THEN LET m == LowestFree(open_fds)
              sl == LowestFree(open_fds \cup {m})
          IN /\ master_fd' = m
             /\ slave_fd' = sl
             /\ open_fds' = open_fds \cup {m, sl}
             /\ IF env = "spawn_fails"
                THEN /\ tc_call' = Called("start", "False")
                     /\ UNCHANGED << system, running, process, pipes, children,
                                     readers, writers >>
                ELSE /\ children' = Append(children, "alive")
                     /\ process' = Len(children) + 1
                     /\ running' = TRUE
                     /\ _start_io_threads
                     /\ tc_call' = Called("start", "True")
                     /\ UNCHANGED << system, pipes >>
     ELSE /\ children' = Append(children, "alive")
          /\ process' = Len(children) + 1
          /\ pipes' = Len(children) + 1
          /\ running' = TRUE
          /\ _start_io_threads
          /\ tc_call' = Called("start", "True")
          /\ UNCHANGED << system, master_fd, slave_fd, open_fds >>

\* stop_terminal without the test "if self.process:": self.process.wait on None
\* raises AttributeError
stop_terminal_unguarded(exits) ==
  /\ running' = FALSE
  /\ UNCHANGED << system, pipes >>
  /\ UNCHANGED io_vars
  /\ IF process = Nil
     THEN /\ tc_call' = Called("stop", "AttributeError")
          /\ UNCHANGED << process, master_fd, slave_fd, children, open_fds >>
     ELSE IF children[process] = "alive" /\ IsUnix /\ ~exits
     THEN /\ tc_call' = Called("stop", "TimeoutExpired")
          /\ UNCHANGED << process, master_fd, slave_fd, children, open_fds >>
     ELSE /\ tc_call' = Called("stop", "ok")
          /\ children' = [children EXCEPT ![process] = "exited"]
          /\ process' = Nil
          /\ master_fd' = Nil
          /\ slave_fd' = Nil
          /\ open_fds' = open_fds \ {master_fd, slave_fd}

\* TerminalController.stop_terminal; exits tells whether a child that is still
\* alive ends within the five seconds process.wait allows after SIGTERM went
\* to its process group (TerminateProcess on Windows ends it at once)
stop_terminal(exits) ==
  /\ running' = FALSE
  /\ UNCHANGED << system, pipes >>
  /\ UNCHANGED io_vars
  /\ IF process # Nil /\ children[process] = "alive" /\ IsUnix /\ ~exits
     THEN /\ tc_call' = Called("stop", "TimeoutExpired")
          /\ UNCHANGED << process, master_fd, slave_fd, children, open_fds >>
     ELSE /\ tc_call' = Called("stop", "ok")
          /\ children' = IF process # Nil
                         THEN [children EXCEPT ![process] = "exited"]
                         ELSE children
          /\ process' = Nil
          /\ master_fd' = Nil
          /\ slave_fd' = Nil
          /\ open_fds' = open_fds \ {master_fd, slave_fd}

\* TerminalController.is_running
is_running == running /\ process # Nil /\ children[process] = "alive"

\* the key_map of send_key; a value is the sequence of the bytes its string
\* encodes to (ESC is 27, "[" is 91, "~" is 126)
key_map ==
  << Item("Enter", << 10 >>), Item("Tab", << 9 >>), Item("Backspace", << 8 >>),
     Item("Escape", << 27 >>), Item("Ctrl+C", << 3 >>), Item("Ctrl+D", << 4 >>),
     Item("Ctrl+Z", << 26 >>), Item("Up", << 27, 91, 65 >>), Item("Down", << 27, 91, 66 >>),
     Item("Right", << 27, 91, 67 >>), Item("Left", << 27, 91, 68 >>),
     Item("Home", << 27, 91, 72 >>), Item("End", << 27, 91, 70 >>),
     Item("PageUp", << 27, 91, 53, 126 >>), Item("PageDown", << 27, 91, 54, 126 >>),
     Item("Delete", << 27, 91, 51, 126 >>), Item("Insert", << 27, 91, 50, 126 >>) >>

\* the byte of "\n"
Newline == 10

\* what send_command writes to: the master side of the pseudo-terminal, or the
\* child's stdin pipe
WriteTarget == IF IsUnix THEN master_fd ELSE pipes

\* TerminalController.send_command on the bytes of the command; write_ok tells
\* whether os.write (or stdin.write and flush) succeeds
send_command(command, add_newline, write_ok) ==
  LET data == IF add_newline /\ (command = <<>> \/ command[Len(command)] # Newline)
              THEN Append(command, Newline)
              ELSE command
  IN IF ~running \/ WriteTarget = Nil
     THEN UNCHANGED << written, errors >>
     ELSE IF write_ok
     THEN written' = Append(written, data) /\ UNCHANGED errors
     ELSE errors' = Append(errors, "send_command") /\ UNCHANGED written

\* send_key that lets send_command add its newline
send_key_with_newline(key, write_ok) ==
  /\ tc_call' = Called("send_key " \o key, "ok")
  /\ UNCHANGED << system, running, process, master_fd, slave_fd, pipes, children, open_fds >>
  /\ UNCHANGED << readers, writers, caller, output_queue, delivered, polled, reads >>
  /\ IF HasKey(key_map, key)
     THEN send_command(Lookup(key_map, key), TRUE, write_ok)
     ELSE UNCHANGED << written, errors >>

\* TerminalController.send_key
send_key(key, write_ok) ==
  /\ tc_call' = Called("send_key " \o key, "ok")
  /\ UNCHANGED << system, running, process, master_fd, slave_fd, pipes, children, open_fds >>
  /\ UNCHANGED << readers, writers, caller, output_queue, delivered, polled, reads >>
  /\ IF HasKey(key_map, key)
     THEN send_command(Lookup(key_map, key), FALSE, write_ok)
     ELSE UNCHANGED << written, errors >>

\* the key names on_command hands to send_key: contents of Key commands, among
\* them the control token CLEAR, and a name no table knows
SentKeys == {"Enter", "Tab", "Up", "Delete", "CLEAR", "F13"}

\* a caller starts a session
Start ==
  \E env \in StartEnvs :
    /\ Len(children) < MaxChildren
    /\ Cardinality(open_fds) + 2 <= MaxFds
    /\ start_terminal(env)
    /\ UNCHANGED << voice_vars, service_vars >>

\* a caller stops the session
Stop == \E exits \in BOOLEAN : stop_terminal(exits) /\ UNCHANGED << voice_vars, service_vars >>

\* a child process ends by itself
ChildExit ==
  \E pid \in 1..Len(children) :
    /\ children[pid] = "alive"
    /\ children' = [children EXCEPT ![pid] = "exited"]
    /\ UNCHANGED << system, running, process, master_fd, slave_fd, pipes, open_fds, tc_call >>
    /\ UNCHANGED io_vars
    /\ UNCHANGED << voice_vars, service_vars >>

\* a caller sends a key
SendKey ==
  \E key \in SentKeys, write_ok \in BOOLEAN :
    /\ HasKey(key_map, key) => Len(written) < MaxWritten
    /\ write_ok \/ Len(errors) < MaxErrors
    /\ send_key(key, write_ok)
    /\ UNCHANGED << voice_vars, service_vars >>

TermNext == Start \/ Stop \/ ChildExit \/ SendKey

TermSpec == AnyHostInit /\ [][TermNext]_vars

(***************************************************************************)
(* TerminalController: the worker threads and a stop that runs beside them *)
(***************************************************************************)
\* the session fields no worker thread assigns
session_fields ==
  << system, running, process, master_fd, slave_fd, pipes, children, open_fds, tc_call >>

\* _output_reader, "while self.running": the loop ends once the flag is down
reader_check(t) ==
  /\ readers[t].pc = "loop"
  /\ readers' = [readers EXCEPT ![t].pc = IF running THEN "read" ELSE "done"]
  /\ UNCHANGED << output_queue, delivered, errors, reads >>

\* a chunk can be read: the descriptor (or the stdout pipe) of a spawned child
\* is at hand
Readable ==
  IF IsUnix THEN master_fd # Nil /\ master_fd \in open_fds /\ process # Nil
  ELSE pipes # Nil

\* what one pass through the try block meets: no descriptor or nothing to
\* read, a chunk, or an exception
ReadEnvs == {"nothing", "chunk", "error"}

\* the read comes back without data: select gives up after its 0.1 s timeout;
\* self.stdout.readline() has no timeout and returns "" only at the end of the
\* file, when no process holds the other end of the pipe any more
ReturnsEmpty ==
  IF IsUnix \/ pipes = Nil THEN TRUE ELSE children[pipes] = "exited"

\* _output_reader whose except clause lets the thread end
reader_read_giving_up(t, env) ==
  /\ readers[t].pc = "read"
  /\ env = "chunk" => Readable
  /\ env = "nothing" => ReturnsEmpty
  /\ readers' = [readers EXCEPT ![t] = IF env = "chunk"
                                        THEN [pc |-> "put", chunk |-> reads + 1]
                                        ELSE IF env = "error"
                                        THEN [pc |-> "done", chunk |-> 0]
                                        ELSE [pc |-> "loop", chunk |-> 0]]
  /\ reads' = IF env = "chunk" THEN reads + 1 ELSE reads
  /\ errors' = IF env = "error" THEN Append(errors, "_output_reader") ELSE errors
  /\ UNCHANGED << output_queue, delivered >>

\* _output_reader, the try block up to the read; the except clause reports
\* the exception to on_error, sleeps and goes back to the head of the loop
reader_read(t, env) ==
  /\ readers[t].pc = "read"
  /\ env = "chunk" => Readable
  /\ env = "nothing" => ReturnsEmpty
  /\ readers' = [readers EXCEPT ![t] = IF env = "chunk"
                                        THEN [pc |-> "put", chunk |-> reads + 1]
                                        ELSE [pc |-> "loop", chunk |-> 0]]
  /\ reads' = IF env = "chunk" THEN reads + 1 ELSE reads
  /\ errors' = IF env = "error" THEN Append(errors, "_output_reader") ELSE errors
  /\ UNCHANGED << output_queue, delivered >>

\* _output_reader: self.output_queue.put(output)
reader_put(t) ==
  /\ readers[t].pc = "put"
  /\ output_queue' = Append(output_queue, readers[t].chunk)
  /\ readers' = [readers EXCEPT ![t].pc = "callback"]
  /\ UNCHANGED << delivered, errors, reads >>

\* _output_reader: self.on_output(output), then the head of the loop
reader_callback(t) ==
  /\ readers[t].pc = "callback"
  /\ delivered' = Append(delivered, readers[t].chunk)
  /\ readers' = [readers EXCEPT ![t] = [pc |-> "loop", chunk |-> 0]]
  /\ UNCHANGED << output_queue, errors, reads >>

\* _input_writer, one pass: "while self.running" ends the loop once the flag
\* is down; otherwise input_queue.get raises queue.Empty after its timeout,
\* since nothing in this repository puts to input_queue, and the loop continues
writer_pass(t) ==
  /\ writers[t] = "loop"
  /\ writers' = [writers EXCEPT ![t] = IF running THEN "loop" ELSE "done"]

\* TerminalController.get_output with a chunk in the queue
get_output ==
  /\ output_queue # <<>>
  /\ polled' = Append(polled, Head(output_queue))
  /\ output_queue' = Tail(output_queue)

\* stop_terminal that leaves the flag as it is
stop_keep_flag ==
  /\ caller = "idle"
  /\ caller' = IF process # Nil THEN "kill" ELSE "close_master"
  /\ UNCHANGED << system, running, process, master_fd, slave_fd, pipes, children, open_fds,
                  tc_call >>

\* stop_terminal, first statement: self.running = False
stop_lower_flag ==
  /\ caller = "idle"
  /\ running' = FALSE
  /\ caller' = IF process # Nil THEN "kill" ELSE "close_master"
  /\ UNCHANGED << system, process, master_fd, slave_fd, pipes, children, open_fds, tc_call >>

\* stop_terminal: process.terminate() ends a Windows child, and only the child:
\* a process the child started (cmd.exe /k <command> starts the command) lives
\* on with the child's ends of the pipes, and the child is then "orphaned";
\* os.killpg sends SIGTERM, which a child may ignore; an exception of either
\* is swallowed
stop_kill ==
  /\ caller = "kill"
  /\ caller' = "wait"
  /\ \E ended \in {"exited", "orphaned"} :
       children' = IF IsUnix \/ children[process] # "alive"
                   THEN children
                   ELSE [children EXCEPT ![process] = ended]
  /\ UNCHANGED << system, running, process, master_fd, slave_fd, pipes, open_fds, tc_call >>

\* stop_terminal: self.process.wait(timeout=5) and self.process = None; exits
\* tells whether a child that is alive ends within the timeout
stop_wait(exits) ==
  /\ caller = "wait"
  /\ IF children[process] = "alive" /\ ~exits
     THEN /\ caller' = "idle"
          /\ tc_call' = Called("stop", "TimeoutExpired")
          /\ UNCHANGED << process, children >>
     ELSE /\ caller' = "close_master"
          /\ children' = [children EXCEPT ![process] = IF @ = "alive" THEN "exited" ELSE @]
          /\ process' = Nil
          /\ UNCHANGED tc_call
  /\ UNCHANGED << system, running, master_fd, slave_fd, pipes, open_fds >>

\* stop_terminal: close and clear master_fd
stop_close_master ==
  /\ caller = "close_master"
  /\ caller' = "close_slave"
  /\ open_fds' = open_fds \ {master_fd}
  /\ master_fd' = Nil
  /\ UNCHANGED << system, running, process, slave_fd, pipes, children, tc_call >>

\* stop_terminal: close and clear slave_fd, and return
stop_close_slave ==
  /\ caller = "close_slave"
  /\ caller' = "idle"
  /\ open_fds' = open_fds \ {slave_fd}
  /\ slave_fd' = Nil
  /\ tc_call' = Called("stop", "ok")
  /\ UNCHANGED << system, running, process, master_fd, pipes, children >>

\* a reader thread takes a step, reading no more than max_chunks chunks
ReaderSteps(max_chunks) ==
  \E t \in 1..Len(readers) :
    /\ \/ reader_check(t)
       \/ \E env \in ReadEnvs :
            /\ env = "chunk" => reads < max_chunks
            /\ env = "error" => Len(errors) < MaxErrors
            /\ reader_read(t, env)
       \/ reader_put(t)
       \/ reader_callback(t)
    /\ UNCHANGED << writers, caller, polled, written >>
    /\ UNCHANGED session_fields
    /\ UNCHANGED << voice_vars, service_vars >>

ReaderStep == ReaderSteps(MaxChunks)

\* a writer thread takes a step
WriterStep ==
  \E t \in 1..Len(writers) :
    /\ writer_pass(t)
    /\ UNCHANGED << readers, caller, output_queue, delivered, polled, errors, written, reads >>
    /\ UNCHANGED session_fields
    /\ UNCHANGED << voice_vars, service_vars >>

\* a thread calls start_terminal, with fewer than max_sessions children so far
StartCalls(max_sessions) ==
  \E env \in StartEnvs :
    /\ caller = "idle"
    /\ Len(children) < max_sessions
    /\ Cardinality(open_fds) + 2 <= MaxFds
    /\ start_terminal(env)
    /\ UNCHANGED << voice_vars, service_vars >>

ThreadStart == StartCalls(MaxSessions)

\* a thread calls stop_terminal
StopCall ==
  /\ stop_lower_flag
  /\ UNCHANGED << readers, writers, output_queue, delivered, polled, errors, written, reads >>
  /\ UNCHANGED << voice_vars, service_vars >>

\* the thread inside stop_terminal takes its next step
StopStep ==
  /\ stop_kill \/ (\E exits \in BOOLEAN : stop_wait(exits)) \/ stop_close_master
       \/ stop_close_slave
  /\ UNCHANGED << readers, writers, output_queue, delivered, polled, errors, written, reads >>
  /\ UNCHANGED << voice_vars, service_vars >>

\* a caller polls the output queue
Poll ==
  /\ get_output
  /\ UNCHANGED << readers, writers, caller, delivered, errors, written, reads >>
  /\ UNCHANGED session_fields
  /\ UNCHANGED << voice_vars, service_vars >>

ThreadNext == ThreadStart \/ StopCall \/ StopStep \/ ChildExit \/ ReaderStep \/ WriterStep

ThreadSpec == AnyHostInit /\ [][ThreadNext]_vars

\* the threads keep being scheduled: a thread inside stop_terminal goes on,
\* and so do the worker loops
FairThreadSpec ==
  ThreadSpec /\ WF_vars(StopStep) /\ WF_vars(ReaderStep) /\ WF_vars(WriterStep)

(***************************************************************************)
(* TerminalController: output across a restart                             *)
(***************************************************************************)
\* a thread starts a session, possibly after an earlier one was stopped
Restart == StartCalls(MaxChildren)

\* a reader thread takes a step of reading and delivering output
OutputStep == ReaderSteps(OutputChunks)

OutputNext == Restart \/ StopCall \/ StopStep \/ OutputStep \/ WriterStep \/ Poll

OutputSpec == AnyHostInit /\ [][OutputNext]_vars

(***************************************************************************)
(* Properties                                                              *)
(***************************************************************************)
\* the text consists of white space only (or is empty)
Blank(text) == \A i \in 1..Len(text) : IsSpace(CharAt(text, i))

\* the phrase is a key of the table once trimmed and lower-cased
IsTrigger(triggers, text) == HasKey(triggers, Lower(Strip(text)))

\* the kind the specification gives a command with this action token
KindOf(action) == IF action \in CONTROL_TOKENS THEN CONTROL ELSE KEY

\* the text with every whole-word spoken punctuation phrase replaced by its symbol
RECURSIVE PunctuatedFrom(_, _)
PunctuatedFrom(text, i) ==
  IF i > Len(PUNCTUATION_MAP) THEN text
  ELSE LET replaced == SubWord(text, PUNCTUATION_MAP[i].k, PUNCTUATION_MAP[i].v)
       IN IF Len(replaced) = 0 THEN "" ELSE PunctuatedFrom(replaced, i + 1)

\* no trigger phrase of the table occurs in the text, letter case ignored
NoTriggerIn(triggers, text) ==
  \A i \in 1..Len(triggers) : Search(text, triggers[i].k) = -1

\* C1: a final fragment that is a key trigger, arriving while the buffer holds
\* earlier non-final text, emits one Text command with the accumulated text and
\* then the trigger's Key command; after "open file dot txt" the fragment
\* "enter" emits Text("open file.txt"), Key("Enter")
C1_TextThenKey ==
  [][\A text \in Fragments :
       ( /\ ~is_paused
         /\ transcription_buffer # ""
         /\ IsTrigger(VOICE_TRIGGERS, text)
         /\ Lookup(VOICE_TRIGGERS, Lower(Strip(text))) \notin CONTROL_TOKENS
         /\ _handle_transcription(text, TRUE) )
       => /\ Len(emitted') = Len(emitted) + 2
          /\ SubSeq(emitted', 1, Len(emitted)) = emitted
          /\ emitted'[Len(emitted) + 1].type = TEXT
          /\ transcription_buffer = "open file dot txt"
               => emitted'[Len(emitted) + 1].content = "open file.txt"
          /\ emitted'[Len(emitted) + 2]
               = VoiceCommand(KEY, Lookup(VOICE_TRIGGERS, Lower(Strip(text))))]_vars

\* C2: a buffer holding "hello" that has been idle for longer than the silence
\* threshold is eventually flushed, without a further fragment
C2_SilenceFlush ==
  ( /\ transcription_buffer = "hello"
    /\ ~is_paused
    /\ now - last_transcription_time > silence_threshold )
  ~> (transcription_buffer # "hello")

\* C3: the fragment "start recording" delivered to a paused engine leaves it
\* not paused, as resume() does, and the fragment "stop recording" delivered to
\* an engine that is not paused leaves it paused, as pause() does
C3_VoiceControlsRecording ==
  [][\A is_final \in BOOLEAN :
       /\ (is_paused /\ _handle_transcription("start recording", is_final))
            => is_paused' = FALSE
       /\ (~is_paused /\ _handle_transcription("stop recording", is_final))
            => is_paused' = TRUE]_vars

\* C4: every built-in trigger phrase is a key of the trigger table, whatever
\* add_custom_trigger and remove_custom_trigger calls were made
C4_BuiltinsPresent ==
  \A i \in 1..Len(BUILTIN_TRIGGERS) : HasKey(VOICE_TRIGGERS, BUILTIN_TRIGGERS[i].k)

\* C5: for a phrase that is not a trigger, adding it and removing it again gives
\* back the table as it was, the phrase is no trigger, and the phrase is
\* segmented as one literal Text command
C5_AddRemoveRoundTrip ==
  \A phrase \in Phrases, action \in TriggerActions :
    ~HasKey(VOICE_TRIGGERS, Lower(phrase)) =>
      LET restored ==
            TriggersAfterRemove(TriggersAfterAdd(VOICE_TRIGGERS, phrase, action), phrase)
      IN /\ restored = VOICE_TRIGGERS
         /\ _check_for_triggers(restored, phrase) = None
         /\ _parse_transcription(restored, phrase)
              = [raised |-> FALSE, commands |-> << VoiceCommand(TEXT, phrase) >>]

\* C6: segmenting a text that is, lower-cased, a trigger phrase yields exactly
\* one command with the phrase's action as content, of kind Control for a
\* control token and of kind Key otherwise
C6_WholeTriggerOneCommand ==
  [][\A text \in Texts :
       (HasKey(VOICE_TRIGGERS, Lower(text)) /\ Segment(text))
       => /\ ~segmented'.raised
          /\ segmented'.commands
               = << VoiceCommand(KindOf(Lookup(VOICE_TRIGGERS, Lower(text))),
                                 Lookup(VOICE_TRIGGERS, Lower(text))) >>]_vars

\* C7: segmenting a non-empty text in which no trigger phrase occurs yields
\* exactly one command, a Text command holding the text after punctuation
\* substitution
C7_PlainTextOneCommand ==
  [][\A text \in Texts :
       (text # "" /\ NoTriggerIn(VOICE_TRIGGERS, text) /\ Segment(text))
       => /\ ~segmented'.raised
          /\ segmented'.commands = << VoiceCommand(TEXT, PunctuatedFrom(text, 1)) >>]_vars

\* C8: the history holds at most max_history commands and is always the most
\* recent min(n, max_history) of the n commands emitted so far, in emission order
C8_HistoryIsRecentWindow ==
  LET n == Len(emitted)
      kept == IF n < max_history THEN n ELSE max_history
  IN /\ Len(command_history) <= max_history
     /\ command_history = SubSeq(emitted, n - kept + 1, n)

\* C8 witness: 150 commands were emitted, the history holds commands 51..150 and
\* the Tab command emitted first is gone from it
C8_Witness ==
  /\ Len(emitted) = 150
  /\ command_history = SubSeq(emitted, 51, 150)
  /\ emitted[1].content = "Tab"
  /\ \A i \in 1..Len(command_history) : command_history[i].content = "Enter"

\* C9: an empty or white-space-only fragment, final or not, paused or not,
\* changes neither the buffer nor the last-update timestamp and emits nothing
C9_BlankFragmentIgnored ==
  [][\A text \in Fragments, is_final \in BOOLEAN :
       (Blank(text) /\ _handle_transcription(text, is_final))
       => UNCHANGED << transcription_buffer, last_transcription_time,
                       emitted, command_history >>]_vars

\* C9 witness: a blank fragment was delivered to an engine that is not paused,
\* whose buffer holds text and whose timestamp is older than the clock
C9_Witness ==
  /\ outcome = "empty"
  /\ ~is_paused
  /\ transcription_buffer # ""
  /\ last_transcription_time < now

\* the controller was never started, or the last call was a stop that returned
NeverStartedOrStopped == tc_call.op \in {"init", "stop"} /\ tc_call.result = "ok"

C11_StopFromOtherThread ==
  (caller # "idle") ~> (caller = "idle" /\ ~is_running)

\* C11 witness: a stop has returned while a reader thread was inside its loop
\* body and a writer thread had not yet seen the flag
C11_Witness ==
  /\ caller = "idle"
  /\ tc_call.op = "stop"
  /\ tc_call.prior = "start:True"
  /\ ~is_running
  /\ \E t \in 1..Len(readers) : readers[t].pc \in {"read", "put", "callback"}
  /\ \E t \in 1..Len(writers) : writers[t] = "loop"

\* C12: whatever fails inside it, a stop_terminal call returns without an
\* exception and leaves the controller stopped, the process handle cleared and
\* both descriptors released
C12_StopAlwaysCleansUp ==
  [][\A exits \in BOOLEAN :
       stop_terminal(exits)
       => /\ tc_call'.result = "ok"
          /\ ~running'
          /\ process' = Nil
          /\ master_fd' = Nil
          /\ slave_fd' = Nil
          /\ open_fds' = open_fds \ {master_fd, slave_fd}]_vars

\* C13: once a stop_terminal call on a session with a child process is over,
\* that child is no longer alive, whether or not it ended within the bounded
\* wait
C13_StopEndsChild ==
  [][\A exits \in BOOLEAN :
       (process # Nil /\ stop_terminal(exits))
       => children'[process] = "exited"]_vars

\* C14: start_terminal called while a session is running, or when no terminal
\* resolves, returns False and changes nothing: same child, same descriptors,
\* same worker threads, same running flag
C14_StartRejected ==
  [][\A env \in StartEnvs :
       ((running \/ env = "no_terminal") /\ start_terminal(env))
       => /\ tc_call'.result = "False"
          /\ UNCHANGED << system, running, process, master_fd, slave_fd, pipes,
                          children, open_fds >>
          /\ UNCHANGED io_vars]_vars

\* C14 witness: start_terminal returned False right after a start that
\* succeeded; the session of the first start runs with its one reader and one
\* writer
C14_Witness ==
  /\ tc_call = [op |-> "start", result |-> "False", prior |-> "start:True"]
  /\ running
  /\ process = 1
  /\ children = << "alive" >>
  /\ Len(readers) = 1
  /\ Len(writers) = 1

\* C15: once the child of a running session has exited, the controller clears
\* its running flag by itself in the end, so that the worker loops end and a
\* later start is not turned away
C15_ExitObserved ==
  (running /\ process # Nil /\ children[process] = "exited") ~> ~running

\* C16: a start_terminal call in which creating the pseudo-terminal or the
\* process fails returns False, leaves the controller stopped and reports the
\* failure with one call of on_error
C16_SpawnFailureReported ==
  [][\A env \in {"openpty_fails", "spawn_fails"} :
       (~running /\ start_terminal(env))
       => /\ tc_call'.result = "False"
          /\ ~running'
          /\ Len(errors') = Len(errors) + 1]_vars

\* C17: an exception inside the reader loop is reported with one call of
\* on_error and the thread goes back to the head of its loop: the session
\* fields and the running flag are as before, no chunk is lost or made up,
\* and the thread has not ended
C17_ReadErrorRetried ==
  [][\A t \in 1..Len(readers) :
       reader_read(t, "error")
       => /\ errors' = Append(errors, "_output_reader")
          /\ readers'[t].pc = "loop"
          /\ \A u \in 1..Len(readers) : u # t => readers'[u] = readers[u]
          /\ UNCHANGED << running, process, master_fd, slave_fd, pipes, children, open_fds,
                          writers, output_queue, delivered, reads >>]_vars

\* C17 witness: the only reader thread of a running session reported an
\* exception in an earlier pass and now hands a chunk it read after that to
\* on_output
C17_Witness ==
  /\ running
  /\ Len(readers) = 1
  /\ errors = << "_output_reader" >>
  /\ readers[1] = [pc |-> "callback", chunk |-> 1]
  /\ output_queue = << 1 >>

\* the bytes the specification's key table gives for the key names sent here
TableBytes(key) ==
  CASE key = "Enter" -> << 10 >>
    [] key = "Tab" -> << 9 >>
    [] key = "Up" -> << 27, 91, 65 >>
    [] key = "Delete" -> << 27, 91, 51, 126 >>

\* C18: send_key on a running session, for a key name of the table, writes
\* the table's bytes for it and nothing more (no newline is added); for a
\* name that is not in the table, CLEAR among them, it writes nothing, reports
\* no error and changes no field
C18_SendKeyWritesTableBytes ==
  [][\A key \in SentKeys :
       /\ (key \in {"Enter", "Tab", "Up", "Delete"} /\ running /\ send_key(key, TRUE))
            => /\ written' = Append(written, TableBytes(key))
               /\ errors' = errors
       /\ \A write_ok \in BOOLEAN :
            (key \in {"CLEAR", "F13"} /\ send_key(key, write_ok))
            => /\ UNCHANGED << system, running, process, master_fd, slave_fd, pipes,
                               children, open_fds >>
               /\ UNCHANGED io_vars]_vars

\* C18 witness: on a running session send_key was called with a name that is
\* not in the table, after Up had been written as its three bytes
C18_Witness ==
  /\ running
  /\ tc_call.op = "send_key CLEAR"
  /\ tc_call.prior = "send_key Up:ok"
  /\ written = << << 27, 91, 65 >> >>
  /\ errors = <<>>

\* the chunks of seq are in the order they were read in, none of them twice
\* (a chunk is named by its position among the reads)
InReadOrder(seq) == \A i, j \in 1..Len(seq) : i < j => seq[i] < seq[j]

\* C19: the chunks handed to on_output are in the order they were read in, so
\* are the chunks put on the output queue, and get_output returns the queued
\* chunks in that order, each once
C19_OutputInReadOrder ==
  /\ InReadOrder(delivered)
  /\ InReadOrder(polled \o output_queue)

\* the transcript text a fragment is handled against: the buffer with the
\* trimmed fragment appended
Transcript(text) ==
  IF transcription_buffer # "" THEN transcription_buffer \o " " \o Strip(text) ELSE Strip(text)

\* the ends q of the spans of the transcript, beginning after position p at or
\* beyond from, that the command can have been produced from: a trigger
\* phrase with the command's action, or text that gives the command's content
SpanEnds(command, transcript, lowered, from) ==
  IF command.type = TEXT
  THEN {q \in (from + 1)..Len(transcript) :
          \E p \in from..(q - 1) :
            PunctuatedFrom(Strip(SubSeq(transcript, p + 1, q)), 1) = command.content}
  ELSE UNION {{p + Len(VOICE_TRIGGERS[i].k) :
                 p \in {r \in from..(Len(lowered) - Len(VOICE_TRIGGERS[i].k)) :
                          SubSeq(lowered, r + 1, r + Len(VOICE_TRIGGERS[i].k))
                            = VOICE_TRIGGERS[i].k}} :
              i \in {n \in 1..Len(VOICE_TRIGGERS) : VOICE_TRIGGERS[n].v = command.content}}

\* the commands were produced, in their order, from spans of the transcript
\* that follow one another from left to right beyond position from
RECURSIVE InTranscriptOrder(_, _, _, _)
InTranscriptOrder(commands, transcript, lowered, from) ==
  \/ commands = <<>>
  \/ \E q \in SpanEnds(Head(commands), transcript, lowered, from) :
       InTranscriptOrder(Tail(commands), transcript, lowered, q)

\* C20: the commands a fragment makes the engine emit come after every
\* command emitted before, in the history as in the calls of on_command, and
\* they are in the left-to-right order of the spans of the transcript they
\* were produced from
C20_EmittedInTranscriptOrder ==
  [][\A text \in OrderFragments, is_final \in BOOLEAN :
       _handle_transcription(text, is_final)
       => LET n == Len(emitted)
              new == SubSeq(emitted', n + 1, Len(emitted'))
          IN /\ SubSeq(emitted', 1, n) = emitted
             /\ command_history' = command_history \o new
             /\ InTranscriptOrder(new, Transcript(text), Lower(Transcript(text)), 0)]_vars

\* C20 witness: one flush emitted three different commands from the buffer
\* "up arrow tab enter", after an earlier fragment had emitted a command
C20_Witness ==
  /\ outcome = "flushed"
  /\ Len(emitted) = 4
  /\ emitted[1] = VoiceCommand(KEY, "Tab")
  /\ SubSeq(emitted, 2, 4)
       = << VoiceCommand(KEY, "Up"), VoiceCommand(KEY, "Tab"), VoiceCommand(KEY, "Enter") >>

(***************************************************************************)
(* AuthManager: rate limiting                                              *)
(***************************************************************************)
\* a Redis key as a command finds it: a key whose time to live has run out is gone
LiveCounter(entry) ==
  IF entry.value > 0 /\ (entry.expires_at = Nil \/ now < entry.expires_at)
  THEN entry
  ELSE NoCounter

\* check_rate_limit records what it returns
Decided(client_id, ok) ==
  decisions' = [decisions EXCEPT ![client_id] = Append(@, [at |-> now, ok |-> ok])]

\* AuthManager.check_rate_limit(client_id, max_requests, window) with Redis
\* answering every command: without Redis the list of the times of the accepted
\* requests younger than window; with Redis INCR on the client's key, EXPIRE when
\* INCR created it
check_rate_limit(client_id, max_requests, window) ==
  IF ~redis_client
  THEN LET current_time == now
           kept == SelectSeq(rate_limits[client_id],
                             LAMBDA req_time : current_time - req_time < window)
       IN /\ IF Len(kept) >= max_requests
             THEN /\ rate_limits' = [rate_limits EXCEPT ![client_id] = kept]
                  /\ Decided(client_id, FALSE)
             ELSE /\ rate_limits' = [rate_limits EXCEPT ![client_id] = Append(kept, current_time)]
                  /\ Decided(client_id, TRUE)
          /\ UNCHANGED redis_counters
  ELSE LET found == LiveCounter(redis_counters[client_id])
           current == found.value + 1
           expires_at == IF current = 1 THEN now + window ELSE found.expires_at
       IN /\ redis_counters' =
               [redis_counters EXCEPT ![client_id] = [value |-> current, expires_at |-> expires_at]]
          /\ Decided(client_id, current <= max_requests)
          /\ UNCHANGED rate_limits

\* a client's request reaches the rate limiter
RateRequest ==
  \E client_id \in ClientIds :
    /\ Len(decisions[client_id]) < MaxRequests
    /\ check_rate_limit(client_id, RateMax, RateWindow)
    /\ UNCHANGED << redis_client, redis_hashes, sessions, issued, revoked >>
    /\ UNCHANGED << metrics_vars, server_vars, voice_vars, controller_vars >>

RateNext == RateRequest \/ Tick

RateSpec == AnyDeploymentInit /\ [][RateNext]_vars

\* the number of requests of client_id accepted in the window that ends at time t
AcceptedIn(client_id, t, window) ==
  Cardinality({i \in 1..Len(decisions[client_id]) :
                 /\ decisions[client_id][i].ok
                 /\ t - decisions[client_id][i].at < window
                 /\ decisions[client_id][i].at <= t})

\* C21: no client ever has more than max_requests accepted requests inside one
\* window: in the window that ends at any moment up to now, at most RateMax
\* requests of each client were accepted
C21_AtMostMaxPerWindow ==
  \A client_id \in ClientIds : \A t \in 0..now :
    AcceptedIn(client_id, t, RateWindow) <= RateMax
(***************************************************************************)
(* AuthManager: sessions                                                   *)
(***************************************************************************)
\* the time to live of a session key in Redis: 3600 * 24 seconds
SessionTTL == 86400

\* a session key as a Redis command finds it
LiveHash(entry) ==
  IF entry.data.fields # {} /\ now < entry.expires_at THEN entry ELSE NoHash

\* redis_client.hset(key, mapping=...) or hset(key, field, value) followed by
\* redis_client.expire(key, 3600 * 24): the fields given are written into the hash
\* of the key, which hset creates when the key does not exist
HSetExpire(entry, fields, values) ==
  LET found == LiveHash(entry).data
  IN [data |-> [fields |-> found.fields \cup fields,
                user_id |-> IF "user_id" \in fields THEN values.user_id ELSE found.user_id,
                websocket_id |-> IF "websocket_id" \in fields THEN values.websocket_id
                                 ELSE found.websocket_id,
                created_at |-> IF "created_at" \in fields THEN values.created_at
                               ELSE found.created_at,
                last_activity |-> IF "last_activity" \in fields THEN values.last_activity
                                  ELSE found.last_activity],
      expires_at |-> now + SessionTTL]

\* AuthManager.create_session(user_id, websocket_id); the session id it returns
\* is the length of issued afterwards
create_session(user_id, websocket_id) ==
  LET session_id == Len(issued) + 1
      session_data == [fields |-> SessionFields, user_id |-> user_id,
                       websocket_id |-> websocket_id, created_at |-> now,
                       last_activity |-> now]
  IN /\ IF redis_client
        THEN /\ redis_hashes' = [redis_hashes EXCEPT
                                   ![session_id] = HSetExpire(@, SessionFields, session_data)]
             /\ UNCHANGED sessions
        ELSE /\ sessions' = [sessions EXCEPT ![session_id] = session_data]
             /\ UNCHANGED redis_hashes
     /\ issued' = Append(issued, [user_id |-> user_id, websocket_id |-> websocket_id])

\* AuthManager.get_session(session_id): the session data, or NoSession for None
get_session(session_id) ==
  IF redis_client
  THEN LET data == LiveHash(redis_hashes[session_id]).data
       IN IF data.fields # {} THEN data ELSE NoSession
  ELSE sessions[session_id]

\* AuthManager.update_session_activity(session_id)
update_session_activity(session_id) ==
  IF redis_client
  THEN /\ redis_hashes' = [redis_hashes EXCEPT
                             ![session_id] =
                               HSetExpire(@, {"last_activity"}, [last_activity |-> now])]
       /\ UNCHANGED sessions
  ELSE /\ sessions' = IF sessions[session_id] # NoSession
                      THEN [sessions EXCEPT ![session_id].last_activity = now]
                      ELSE sessions
       /\ UNCHANGED redis_hashes

\* revoke_session that forgets the Redis key: only the dict is cleared
revoke_session_in_memory_only(session_id) ==
  /\ sessions' = [sessions EXCEPT ![session_id] = NoSession]
  /\ UNCHANGED redis_hashes
  /\ revoked' = revoked \cup {session_id}

\* AuthManager.revoke_session(session_id)
revoke_session(session_id) ==
  /\ IF redis_client
     THEN redis_hashes' = [redis_hashes EXCEPT ![session_id] = NoHash] /\ UNCHANGED sessions
     ELSE sessions' = [sessions EXCEPT ![session_id] = NoSession] /\ UNCHANGED redis_hashes
  /\ revoked' = revoked \cup {session_id}

\* what the session operations leave alone
BesideSessions ==
  << redis_client, redis_counters, rate_limits, decisions, metrics_vars, server_vars,
     voice_vars, controller_vars >>

\* a caller creates a session
CreateSession ==
  \E user_id \in ClientIds, websocket_id \in Sockets :
    /\ Len(issued) < MaxIssued
    /\ create_session(user_id, websocket_id)
    /\ UNCHANGED << revoked, BesideSessions >>

\* a caller marks activity on an id, issued or not
UpdateSessionActivity ==
  \E session_id \in SessionIds :
    /\ session_id <= Len(issued)
    /\ update_session_activity(session_id)
    /\ UNCHANGED << issued, revoked, BesideSessions >>

\* a caller revokes an id, issued or not
RevokeSession ==
  \E session_id \in SessionIds :
    /\ session_id <= Len(issued)
    /\ revoke_session(session_id)
    /\ UNCHANGED << issued, BesideSessions >>

SessionNext == CreateSession \/ UpdateSessionActivity \/ RevokeSession \/ Tick

SessionSpec == AnyDeploymentInit /\ [][SessionNext]_vars

\* C22: from create_session until revoke_session, get_session returns a record
\* with the user_id and websocket_id the session was created with; for an id that
\* was revoked or never issued get_session returns None, whatever
\* update_session_activity calls were made on it
C22_SessionLifecycle ==
  \A session_id \in SessionIds :
    IF session_id \in 1..Len(issued) /\ session_id \notin revoked
    THEN /\ get_session(session_id) # NoSession
         /\ get_session(session_id).user_id = issued[session_id].user_id
         /\ get_session(session_id).websocket_id = issued[session_id].websocket_id
    ELSE get_session(session_id) = NoSession
(***************************************************************************)
(* MetricsCollector                                                        *)
(***************************************************************************)
\* MetricsCollector._get_audio_bucket(duration)
_get_audio_bucket(duration) ==
  IF duration < 5 THEN "0-5s"
  ELSE IF duration < 30 THEN "5-30s"
  ELSE IF duration < 60 THEN "30-60s"
  ELSE IF duration < 300 THEN "1-5m"
  ELSE "5m+"

\* record_transcription with the last increment inside the success branch
record_transcription_counting_successes(duration, success) ==
  IF ~ENABLE_METRICS
  THEN UNCHANGED << request_count, success_count, error_count, prometheus >>
  ELSE LET status == IF success THEN "success" ELSE "error"
           counted == [prometheus EXCEPT !.transcription_requests[status] = @ + 1]
       IN IF success
          THEN /\ prometheus' =
                    [counted EXCEPT !.transcription_duration[_get_audio_bucket(duration)] = @ + 1]
               /\ success_count' = success_count + 1
               /\ request_count' = request_count + 1
               /\ UNCHANGED error_count
          ELSE /\ prometheus' = counted
               /\ error_count' = error_count + 1
               /\ UNCHANGED << success_count, request_count >>

\* MetricsCollector.record_transcription(duration, model, language, success);
\* every call here names the same model and language
record_transcription(duration, success) ==
  IF ~ENABLE_METRICS
  THEN UNCHANGED << request_count, success_count, error_count, prometheus >>
  ELSE LET status == IF success THEN "success" ELSE "error"
           counted == [prometheus EXCEPT !.transcription_requests[status] = @ + 1]
       IN /\ IF success
             THEN /\ prometheus' =
                       [counted EXCEPT
                          !.transcription_duration[_get_audio_bucket(duration)] = @ + 1]
                  /\ success_count' = success_count + 1
                  /\ UNCHANGED error_count
             ELSE /\ prometheus' = counted
                  /\ error_count' = error_count + 1
                  /\ UNCHANGED success_count
          /\ request_count' = request_count + 1

\* MetricsCollector.record_connection(event)
record_connection(event) ==
  IF ~ENABLE_METRICS
  THEN UNCHANGED prometheus
  ELSE prometheus' =
         [prometheus EXCEPT
            !.websocket_connections[event] = @ + 1,
            !.active_connections = IF event = "connect" THEN @ + 1
                                   ELSE IF event = "disconnect" THEN @ - 1 ELSE @]

\* MetricsCollector.get_stats(), without the uptime; the error rate as the
\* fraction it is computed from
get_stats ==
  [total_requests |-> request_count,
   successful_requests |-> success_count,
   failed_requests |-> error_count,
   error_rate |-> [numerator |-> error_count,
                   denominator |-> IF request_count > 1 THEN request_count ELSE 1],
   active_connections |-> IF ENABLE_METRICS THEN prometheus.active_connections ELSE 0]

\* the durations, in seconds, record_transcription is called with
Durations == {2, 45}

\* a caller records one transcription
RecordTranscription ==
  \E duration \in Durations, success \in BOOLEAN :
    /\ Len(recorded) < MaxCalls
    /\ record_transcription(duration, success)
    /\ recorded' = Append(recorded, success)
    /\ UNCHANGED << ENABLE_METRICS, auth_vars, server_vars, voice_vars, controller_vars >>

MetricsNext == RecordTranscription

MetricsSpec == AnyDeploymentInit /\ [][MetricsNext]_vars

\* the number of record_transcription calls made with this success argument
CallsWith(success) == Cardinality({i \in 1..Len(recorded) : recorded[i] = success})

\* what the claim says get_stats reports
StatsCountCalls ==
  /\ get_stats.total_requests = Len(recorded)
  /\ get_stats.successful_requests = CallsWith(TRUE)
  /\ get_stats.failed_requests = CallsWith(FALSE)
  /\ get_stats.total_requests = get_stats.successful_requests + get_stats.failed_requests

\* C23 as stated: after any sequence of record_transcription calls get_stats
\* reports the number of calls, of calls with success=True and of calls with
\* success=False
C23_StatsCountCalls == StatsCountCalls

\* C23 as amended: while ENABLE_METRICS is set, after any sequence of
\* record_transcription calls get_stats reports the number of calls, of calls
\* with success=True and of calls with success=False
C23_StatsCountCallsWhenEnabled == ENABLE_METRICS => StatsCountCalls

\* metrics are on and calls of both kinds were recorded
C23_Witness ==
  /\ ENABLE_METRICS
  /\ CallsWith(TRUE) >= 2
  /\ CallsWith(FALSE) >= 2
  /\ get_stats.total_requests = 4
(***************************************************************************)
(* server_enhanced: the /ws/transcribe connection handlers                 *)
(***************************************************************************)
\* MetricsCollector.record_error(error_type, component)
record_error ==
  IF ~ENABLE_METRICS
  THEN UNCHANGED << prometheus, error_count >>
  ELSE /\ prometheus' = [prometheus EXCEPT !.errors_total = @ + 1]
       /\ error_count' = error_count + 1

\* ClientManager.add_client(websocket, client)
add_client(websocket) == clients' = clients \cup {websocket}

\* ClientManager.remove_client(websocket)
remove_client(websocket) == clients' = clients \ {websocket}

\* the server-full test with > for >=
ServerFullAboveLimit == Cardinality(clients) > MAX_CLIENTS

\* len(client_manager.clients) >= MAX_CLIENTS
ServerFull == Cardinality(clients) >= MAX_CLIENTS

\* the reasons the authentication check closes a connection with: no
\* Authorization header, a scheme other than bearer, a token verify_token
\* turns down
AuthFailures ==
  {"Missing authorization", "Invalid authentication scheme", "Invalid or expired token"}

\* what the authentication check of a connection leads to: "ok" (also when
\* ENABLE_AUTH is off), or the reason it closes the connection with
AuthOutcomes == AuthFailures \cup {"ok"}

\* the handler of websocket moves on
Moved(websocket, handler) == handlers' = [handlers EXCEPT ![websocket] = handler]

\* Append(handler.sent, message) inside the handler record
Sending(handler, message) == [handler EXCEPT !.sent = Append(@, message)]

\* a connection arrives: the coroutine starts and waits in websocket.accept();
\* the websockets are numbered in the order they connect
Connect ==
  \E websocket \in Sockets :
    /\ handlers[websocket].pc = "idle"
    /\ \A earlier \in 1..(websocket - 1) : handlers[earlier].pc # "idle"
    /\ Moved(websocket, [handlers[websocket] EXCEPT !.pc = "accepted"])
    /\ UNCHANGED << clients, auth_vars, metrics_vars, voice_vars, controller_vars >>

\* websocket_transcribe from the return of accept() to its next await: the
\* authentication check, the rate limit, the server-full test, create_session,
\* add_client and record_connection
Admit ==
  \E websocket \in Sockets, auth \in AuthOutcomes, client_id \in ClientIds :
    LET handler == handlers[websocket]
    IN /\ handler.pc = "accepted"
       /\ Len(decisions[client_id]) < MaxRequests
       /\ IF auth # "ok"
          THEN /\ Moved(websocket, [handler EXCEPT !.pc = "closing", !.closed = auth])
               /\ UNCHANGED << clients, auth_vars, metrics_vars >>
          ELSE /\ check_rate_limit(client_id, ConnectionRateMax, RateWindow)
               /\ IF ~decisions'[client_id][Len(decisions'[client_id])].ok
                  THEN /\ Moved(websocket, [handler EXCEPT !.pc = "closing",
                                                           !.closed = "Rate limit exceeded"])
                       /\ UNCHANGED << clients, redis_hashes, sessions, issued >>
                       /\ UNCHANGED prometheus
                  ELSE IF ServerFull
                  THEN /\ Moved(websocket, [handler EXCEPT !.pc = "full"])
                       /\ UNCHANGED << clients, redis_hashes, sessions, issued >>
                       /\ UNCHANGED prometheus
                  ELSE /\ create_session(client_id, websocket)
                       /\ add_client(websocket)
                       /\ record_connection("connect")
                       /\ Moved(websocket, [handler EXCEPT !.pc = "welcome",
                                                           !.session_id = Len(issued) + 1])
               /\ UNCHANGED << redis_client, revoked >>
               /\ UNCHANGED << ENABLE_METRICS, request_count, success_count, error_count,
                               recorded >>
       /\ UNCHANGED << voice_vars, controller_vars >>

\* await websocket.send_json({"type": "error", "message": "Server full. ..."}):
\* sent, or raising because the peer is gone, which skips the close
FullSend ==
  \E websocket \in Sockets, peer_gone \in BOOLEAN :
    /\ handlers[websocket].pc = "full"
    /\ Moved(websocket,
             IF peer_gone
             THEN [handlers[websocket] EXCEPT !.pc = "finally", !.closed = "peer gone"]
             ELSE [Sending(handlers[websocket], "error") EXCEPT !.pc = "closing",
                                                                !.closed = "Server full"])
    /\ UNCHANGED << clients, auth_vars, metrics_vars, voice_vars, controller_vars >>

\* await websocket.close(code=1008, reason=...) and the return after it
Close ==
  \E websocket \in Sockets :
    /\ handlers[websocket].pc = "closing"
    /\ Moved(websocket, [handlers[websocket] EXCEPT !.pc = "finally"])
    /\ UNCHANGED << clients, auth_vars, metrics_vars, voice_vars, controller_vars >>

\* await websocket.send_json({"type": "connected", ...})
Welcome ==
  \E websocket \in Sockets, peer_gone \in BOOLEAN :
    /\ handlers[websocket].pc = "welcome"
    /\ Moved(websocket,
             IF peer_gone
             THEN [handlers[websocket] EXCEPT !.pc = "finally", !.closed = "peer gone"]
             ELSE [Sending(handlers[websocket], "connected") EXCEPT !.pc = "receiving"])
    /\ UNCHANGED << clients, auth_vars, metrics_vars, voice_vars, controller_vars >>

\* what websocket.receive() brings: a message, the disconnect, or a message
\* whose handling raises
Received == {"message", "disconnect", "raises"}

\* one pass of the message loop
Receive ==
  \E websocket \in Sockets, message \in Received :
    LET handler == handlers[websocket]
    IN /\ handler.pc = "receiving"
       /\ handler.closed # "" => message = "disconnect"
       /\ IF message = "disconnect"
          THEN /\ Moved(websocket, [handler EXCEPT !.pc = "finally"])
               /\ UNCHANGED << redis_hashes, sessions, prometheus, error_count >>
          ELSE /\ update_session_activity(handler.session_id)
               /\ IF message = "raises"
                  THEN /\ record_error
                       /\ Moved(websocket, [handler EXCEPT !.pc = "finally"])
                  ELSE UNCHANGED << handlers, prometheus, error_count >>
       /\ UNCHANGED << clients, redis_client, redis_counters, rate_limits, decisions, issued,
                       revoked >>
       /\ UNCHANGED << ENABLE_METRICS, request_count, success_count, recorded >>
       /\ UNCHANGED << voice_vars, controller_vars >>

\* the finally block: revoke_session, remove_client, record_connection; the
\* coroutine returns and its locals are gone
Finally ==
  \E websocket \in Sockets :
    LET handler == handlers[websocket]
    IN /\ handler.pc = "finally"
       /\ IF handler.session_id # Nil
          THEN revoke_session(handler.session_id)
          ELSE UNCHANGED << redis_hashes, sessions, revoked >>
       /\ remove_client(websocket)
       /\ record_connection("disconnect")
       /\ Moved(websocket, [NoHandler EXCEPT !.pc = "done"])
       /\ UNCHANGED << redis_client, redis_counters, rate_limits, decisions, issued >>
       /\ UNCHANGED << ENABLE_METRICS, request_count, success_count, error_count,
                       recorded >>
       /\ UNCHANGED << voice_vars, controller_vars >>

\* cleanup_inactive_sessions finds a client connected for longer than
\* MAX_CONNECTION_TIME: remove_client, then websocket.close(code=1000)
SessionTimeout ==
  \E websocket \in clients :
    /\ handlers[websocket].pc = "receiving"
    /\ handlers[websocket].closed = ""
    /\ remove_client(websocket)
    /\ Moved(websocket, [handlers[websocket] EXCEPT !.closed = "Session timeout"])
    /\ UNCHANGED << auth_vars, metrics_vars, voice_vars, controller_vars >>

ServerNext ==
  Connect \/ Admit \/ FullSend \/ Close \/ Welcome \/ Receive \/ Finally \/ SessionTimeout

\* the server without Redis, and with Redis
ServerInit ==
  VoiceInit /\ TermInit("Linux") /\ \E cache \in BOOLEAN : ServiceInit(cache, TRUE)

ServerSpec == ServerInit /\ [][ServerNext]_vars
\* C24: the client manager never holds more than MAX_CLIENTS clients; a handler
\* that passes authentication and the rate limit while MAX_CLIENTS clients are
\* registered goes on to report the error message, and it is not added then or
\* while it sends the message and closes with "Server full"
C24_NeverAboveMaxClients ==
  [][/\ Cardinality(clients') <= MAX_CLIENTS
     /\ \A websocket \in Sockets :
          /\ ( /\ handlers[websocket].pc = "accepted"
               /\ handlers'[websocket].pc # "accepted"
               /\ Cardinality(clients) >= MAX_CLIENTS )
             => /\ handlers'[websocket].pc \in {"closing", "full"}
                /\ handlers'[websocket].pc = "closing"
                     => handlers'[websocket].closed # "Server full"
                /\ websocket \notin clients'
          /\ ( /\ handlers[websocket].pc = "full"
               /\ handlers'[websocket].pc # "full" )
             => /\ websocket \notin clients'
                /\ \/ /\ handlers'[websocket].pc = "closing"
                      /\ handlers'[websocket].closed = "Server full"
                      /\ handlers'[websocket].sent = << "error" >>
                   \/ /\ handlers'[websocket].pc = "finally"
                      /\ handlers'[websocket].closed = "peer gone"
          /\ handlers[websocket].closed = "Server full" => websocket \notin clients'
    ]_vars

\* a connection is being closed as server-full while MAX_CLIENTS others are
\* registered
C24_Witness ==
  /\ Cardinality(clients) = MAX_CLIENTS
  /\ \E websocket \in Sockets :
       /\ handlers[websocket].pc = "closing"
       /\ handlers[websocket].closed = "Server full"
       /\ handlers[websocket].sent = << "error" >>
       /\ websocket \notin clients
(***************************************************************************)
(* TerminalController: the worker loops after stop                         *)
(***************************************************************************)
\* C25: once worker loops exist and stop has lowered the flag, every reader
\* loop and every writer loop ends, on the pty backend and on the pipe backend
C25_WorkerLoopsEnd ==
  (Len(readers) > 0 /\ ~running)
    ~> (\A t \in 1..Len(readers) : readers[t].pc = "done" /\ writers[t] = "done")
\* C26: stop releases the descriptors of the session only after both worker
\* loops have ended (the model has no join and no join timeout, as the code has
\* none): whenever a descriptor is closed, every reader loop and every writer
\* loop is done, so that no loop can use a descriptor that is closed
C26_CloseAfterLoopsEnd ==
  [][(\E fd \in open_fds : fd \notin open_fds')
       => \A t \in 1..Len(readers) : readers[t].pc = "done" /\ writers[t] = "done"]_vars
\* the session a chunk read now comes from: the child behind self.master_fd,
\* or behind self.stdout
ReadSource == IF IsUnix THEN process ELSE pipes

\* C27: the worker loops of an earlier session never read from a later session:
\* the t-th reader thread belongs to the t-th child, and whenever it takes a
\* chunk from the terminal the chunk comes from that child's session
C27_LoopsServeOwnSession ==
  [][\A t \in 1..Len(readers) :
       (readers[t].pc = "read" /\ readers'[t].pc = "put") => ReadSource = t]_vars
ControlFragments ==
  {"clear", "screen", "pause", "recording",
   "clear screen", "start recording", "stop recording", "pause recording",
   "resume recording", "hello clear screen", "hello pause recording",
   " Clear Screen", "Enter "}

\* the client delivers one of these fragments
ControlFragment ==
  \E text \in ControlFragments, is_final \in BOOLEAN :
    /\ Len(emitted) < ControlEmitted
    /\ Len(transcription_buffer) + 1 + Len(text) <= ControlBuf
    /\ _handle_transcription(text, is_final)
    /\ UNCHANGED << controller_vars, service_vars >>

ControlNext == ControlFragment \/ Resume

ControlSpec == Init /\ [][ControlNext]_vars

\* the commands the step has handed to on_command
NewlyEmitted == SubSeq(emitted', Len(emitted) + 1, Len(emitted'))

\* the command carries a control token
CarriesControlToken(command) ==
  command.type # TEXT /\ command.content \in CONTROL_TOKENS

\* the paused flag the specification gives after these commands: START and
\* RESUME clear it, STOP and PAUSE set it, every other command leaves it
RECURSIVE PausedAfter(_, _)
PausedAfter(paused, commands) ==
  IF commands = <<>> THEN paused
  ELSE LET c == Head(commands)
           next == IF ~CarriesControlToken(c) THEN paused
                   ELSE IF c.content \in {"START_RECORDING", "RESUME_RECORDING"} THEN FALSE
                   ELSE IF c.content \in {"STOP_RECORDING", "PAUSE_RECORDING"} THEN TRUE
                   ELSE paused
       IN PausedAfter(next, Tail(commands))

\* C29: every command emitted with a control token (START_RECORDING,
\* STOP_RECORDING, PAUSE_RECORDING, RESUME_RECORDING, CLEAR) has kind Control,
\* whether the fragment was a trigger, the buffer as a whole was one, or the
\* phrase stood inside the buffer; the recording tokens set the paused flag
\* (START and RESUME clear it, STOP and PAUSE set it) and CLEAR leaves it
C29_ControlTokensAreControl ==
  [][\A text \in ControlFragments, is_final \in BOOLEAN :
       (~is_paused /\ _handle_transcription(text, is_final))
       => /\ \A i \in 1..Len(NewlyEmitted) :
               CarriesControlToken(NewlyEmitted[i]) => NewlyEmitted[i].type = CONTROL
          /\ is_paused' = PausedAfter(is_paused, NewlyEmitted)]_vars

\* C30: a fragment that is not discarded and, trimmed and lower-cased, is a
\* trigger phrase emits exactly one command, the one carrying that trigger's
\* action, in the same call, final or not and whatever the buffer held, and
\* leaves the buffer empty
C30_TriggerFragmentEmitsAtOnce ==
  [][\A text \in ControlFragments, is_final \in BOOLEAN :
       ( /\ ~is_paused
         /\ ~Blank(text)
         /\ IsTrigger(VOICE_TRIGGERS, text)
         /\ _handle_transcription(text, is_final) )
       => /\ Len(emitted') = Len(emitted) + 1
          /\ SubSeq(emitted', 1, Len(emitted)) = emitted
          /\ emitted'[Len(emitted')].type # TEXT
          /\ emitted'[Len(emitted')].content = Lookup(VOICE_TRIGGERS, Lower(Strip(text)))
          /\ transcription_buffer' = ""]_vars

\* a capitalised trigger fragment with a trailing space was delivered last,
\* after other commands, and its key is the newest command
C30_Witness ==
  /\ outcome = "trigger"
  /\ transcription_buffer = ""
  /\ Len(emitted) > 1
  /\ emitted[Len(emitted)] = VoiceCommand(KEY, "Enter")

\* the buffer after the fragment has been trimmed and appended to it
Joined(buffer, text) ==
  IF buffer # "" THEN buffer \o " " \o Strip(text) ELSE Strip(text)

\* the end of the text is a trigger phrase, letter case ignored
TrailingTrigger(triggers, text) ==
  \E i \in 1..Len(triggers) : EndsWith(Lower(Strip(text)), triggers[i].k)

RECURSIVE InlineCommands(_, _)
InlineCommands(triggers, text) ==
  IF text = "" THEN <<>>
  ELSE
    LET found == {i \in 1..Len(triggers) : triggers[i].k # "" /\ Search(text, triggers[i].k) >= 0}
    IN IF found = {} THEN << VoiceCommand(TEXT, PunctuatedFrom(text, 1)) >>
       ELSE LET pos    == Min({Search(text, triggers[i].k) : i \in found})
                winner == Min({i \in found : Search(text, triggers[i].k) = pos})
                before == Strip(SubSeq(text, 1, pos))
                after  == Strip(SubSeq(text, pos + Len(triggers[winner].k) + 1, Len(text)))
            IN (IF before # "" THEN << VoiceCommand(TEXT, PunctuatedFrom(before, 1)) >> ELSE <<>>)
                 \o << VoiceCommand(KEY, triggers[winner].v) >>
                 \o InlineCommands(triggers, after)

\* the two command lists agree in length, in every content and in which
\* commands are Text commands
SameSegments(a, b) ==
  /\ Len(a) = Len(b)
  /\ \A i \in 1..Len(a) : a[i].content = b[i].content /\ (a[i].type = TEXT <=> b[i].type = TEXT)

\* C32: a text that is not a trigger phrase but has trigger phrases inside it is
\* segmented at the leftmost occurrence, the first registered trigger winning
\* among those that start there ("stop" before "stop recording"); the text in
\* front is a Text command, the occurrence a Key or Control command and the
\* text left at the end a last Text command
C32_InlineSegmentation ==
  [][\A text \in Texts :
       ( /\ ~HasKey(VOICE_TRIGGERS, Lower(text))
         /\ ~NoTriggerIn(VOICE_TRIGGERS, text)
         /\ Segment(text) )
       => /\ ~segmented'.raised
          /\ SameSegments(segmented'.commands, InlineCommands(VOICE_TRIGGERS, text))]_vars

\* the phrase as the specification normalises it: lower-cased and trimmed
Normalized(phrase) == Strip(Lower(phrase))

\* C33: every key of the trigger table is stored lower-cased and trimmed, and no
\* two keys are the same after normalisation, so that phrases differing only in
\* letter case or surrounding whitespace name one and the same entry
C33_KeysNormalized ==
  \A i, j \in 1..Len(VOICE_TRIGGERS) :
    /\ VOICE_TRIGGERS[i].k = Normalized(VOICE_TRIGGERS[i].k)
    /\ Normalized(VOICE_TRIGGERS[i].k) = Normalized(VOICE_TRIGGERS[j].k) => i = j

\* the punctuation table with the phrases of several words in front, so that a
\* phrase is replaced before any shorter phrase it contains
OwnSymbolOrder ==
  SelectSeq(PUNCTUATION_MAP, LAMBDA e : Find(e.k, " ") >= 0)
    \o SelectSeq(PUNCTUATION_MAP, LAMBDA e : Find(e.k, " ") < 0)

\* the text with every whole-word spoken punctuation phrase replaced by that
\* phrase's own symbol
RECURSIVE OwnSymbolsFrom(_, _)
OwnSymbolsFrom(text, i) ==
  IF i > Len(OwnSymbolOrder) THEN text
  ELSE LET replaced == SubWord(text, OwnSymbolOrder[i].k, OwnSymbolOrder[i].v)
       IN IF Len(replaced) = 0 THEN "" ELSE OwnSymbolsFrom(replaced, i + 1)

\* C34: a text without triggers becomes a Text command in which exactly the
\* whole-word occurrences of the spoken punctuation phrases, letter case
\* ignored, are replaced by their own symbols ("single quote" by the
\* apostrophe, not by "single" and the symbol of "quote"), and a command made
\* from a trigger carries the trigger's action unchanged
C34_PunctuationOwnSymbol ==
  [][\A text \in Texts :
       Segment(text) =>
         IF HasKey(VOICE_TRIGGERS, Lower(text))
         THEN segmented'.commands[1].content = Lookup(VOICE_TRIGGERS, Lower(text))
         ELSE NoTriggerIn(VOICE_TRIGGERS, text) /\ Strip(OwnSymbolsFrom(text, 1)) # ""
              => /\ ~segmented'.raised
                 /\ segmented'.commands
                      = << VoiceCommand(TEXT, Strip(OwnSymbolsFrom(text, 1))) >>]_vars

(***************************************************************************)
(* Several VoiceController instances                                       *)
(***************************************************************************)
\* two VoiceController objects of one process
Instances == {"first", "second"}

\* self.VOICE_TRIGGERS read through an instance: __init__ assigns no attribute
\* of that name, so the lookup ends at the dict of the class, the same object
\* for every instance, whenever it was created
TriggersOf(instance) == VOICE_TRIGGERS

\* C35: add_custom_trigger and remove_custom_trigger called on one instance leave
\* the trigger table of every other instance as it was
C35_OwnTriggerTable ==
  [][\A changed \in Instances, phrase \in Phrases, action \in TriggerActions :
       (add_custom_trigger(phrase, action) \/ remove_custom_trigger(phrase))
       => \A other \in Instances \ {changed} : TriggersOf(other)' = TriggersOf(other)]_vars

(***************************************************************************)
(* The engine with an on_command callback that raises                      *)
(***************************************************************************)
\* self.transcription_buffer as on_command finds it while _handle_transcription
\* handles the fragment: on the trigger path the fragment has been appended
\* and the buffer is cleared only after _execute_command returns; on the flush
\* path _process_transcription_buffer has cleared it before parsing
BufferAtCallback(text) ==
  LET t == CleanedText(text)
      buffer == IF transcription_buffer # ""
                THEN transcription_buffer \o " " \o t
                ELSE t
  IN IF _check_for_triggers(VOICE_TRIGGERS, t) # None THEN buffer ELSE ""

\* VoiceController._handle_transcription when on_command raises for the first
\* command: _execute_command has appended the command to the history and the
\* exception leaves _execute_command before _handle_control_command and the
\* handler before any later statement
_handle_transcription_on_command_raising(text, is_final) ==
  LET t == CleanedText(text)
      buffer == IF transcription_buffer # ""
                THEN transcription_buffer \o " " \o t
                ELSE t
      command == _check_for_triggers(VOICE_TRIGGERS, t)
      parsed == _parse_transcription(VOICE_TRIGGERS, Strip(buffer))
      first == IF command # None THEN command ELSE Head(parsed.commands)
  IN /\ ~is_paused
     /\ t # ""
     /\ IF command # None THEN TRUE
        ELSE /\ is_final \/ _should_process_buffer(VOICE_TRIGGERS, buffer, now)
             /\ ~parsed.raised
             /\ parsed.commands # <<>>
     /\ last_transcription_time' = now
     /\ transcription_buffer' = IF command # None THEN buffer ELSE ""
     /\ command_history' = AppendHistory(command_history, first)
     /\ emitted' = Append(emitted, first)
     /\ outcome' = "on_command raised"
     /\ UNCHANGED << VOICE_TRIGGERS, is_paused, now, segmented >>

\* the client delivers a fragment and the callback installed as on_command raises
CallbackRaises ==
  \E text \in ControlFragments, is_final \in BOOLEAN :
    /\ Len(emitted) < ControlEmitted
    /\ Len(transcription_buffer) + 1 + Len(text) <= ControlBuf
    /\ _handle_transcription_on_command_raising(text, is_final)
    /\ UNCHANGED << controller_vars, service_vars >>

CallbackNext == ControlFragment \/ Resume \/ CallbackRaises

CallbackSpec == Init /\ [][CallbackNext]_vars

\* C36: whenever the handling of a fragment hands a command to on_command, the
\* buffer is empty when the handler is left, also when the callback raises,
\* and while the callback runs the buffer no longer holds the text the command
\* was made from
C36_BufferClearedWithEmission ==
  [][\A text \in ControlFragments, is_final \in BOOLEAN :
       ( /\ \/ _handle_transcription(text, is_final)
            \/ _handle_transcription_on_command_raising(text, is_final)
         /\ Len(emitted') > Len(emitted) )
       => /\ transcription_buffer' = ""
          /\ BufferAtCallback(text) = ""]_vars

\* C37: a controller that is not running holds no open descriptor and no
\* process handle, also after a start_terminal that failed once the
\* pseudo-terminal was there and after any stop_terminal
C37_StoppedHoldsNothing ==
  ~running => /\ open_fds = {}
              /\ master_fd = Nil
              /\ slave_fd = Nil
              /\ process = Nil

\* C38: the active-connections gauge is never negative and equals the number
\* of clients registered in the client manager, also for connections that were
\* turned away before they were registered
C38_GaugeCountsClients ==
  /\ prometheus.active_connections >= 0
  /\ prometheus.active_connections = Cardinality(clients)

\* C39: a connection the authentication check turns down (no header, a scheme
\* other than bearer, an invalid or expired token) is closed without a session
\* having been created for it and without having been registered in the client
\* manager; and when the handler of a connection ends, however it ends, the
\* session created for that connection is revoked and no longer found
C39_RejectedHaveNoSession ==
  [][\A websocket \in Sockets :
       /\ handlers'[websocket].closed \in AuthFailures
            => /\ handlers'[websocket].session_id = Nil
               /\ websocket \notin clients'
               /\ \A session_id \in 1..Len(issued') :
                    issued'[session_id].websocket_id # websocket
       /\ (handlers[websocket].pc # "done" /\ handlers'[websocket].pc = "done")
            => \A session_id \in 1..Len(issued) :
                 issued[session_id].websocket_id = websocket
                 => /\ session_id \in revoked'
                    /\ get_session(session_id)' = NoSession]_vars

\* one connection was turned down for its missing header and waits to be
\* closed, and the handler of another has ended with its session revoked
C39_Witness ==
  /\ \E websocket \in Sockets :
       /\ handlers[websocket].closed = "Missing authorization"
       /\ handlers[websocket].pc = "closing"
  /\ \E session_id \in revoked :
       /\ handlers[issued[session_id].websocket_id].pc = "done"
       /\ get_session(session_id) = NoSession

(***************************************************************************)
(* monitoring: transcriptions and errors recorded side by side             *)
(***************************************************************************)
\* a caller records one error
RecordError ==
  /\ error_count < MaxCalls
  /\ record_error
  /\ UNCHANGED << ENABLE_METRICS, request_count, success_count, recorded >>
  /\ UNCHANGED << auth_vars, server_vars, voice_vars, controller_vars >>

ErrorNext == RecordTranscription \/ RecordError

ErrorSpec == AnyDeploymentInit /\ [][ErrorNext]_vars

\* C40: after any sequence of record_transcription and record_error calls the
\* statistics report no more failed requests than requests, and an error rate
\* between 0 and 1
C40_StatsConsistent ==
  /\ get_stats.failed_requests <= get_stats.total_requests
  /\ get_stats.error_rate.numerator >= 0
  /\ get_stats.error_rate.numerator <= get_stats.error_rate.denominator
====
